---------------------------- MODULE Spec2Model ----------------------------
(***************************************************************************)
(* Model of the behaviour engine robocup::GameLogic                        *)
(* (src/common-cpp/include/game_logic.h), of the data it consumes and      *)
(* produces (src/common-cpp/include/messages.h, localization.h) and of the *)
(* control loops that drive it (src/platform-pc/main_pc.cpp,               *)
(* src/platform-esp32/main/main_esp32.cpp).                                *)
(*                                                                         *)
(* Specifications.  Spec: decide_action and reset on one instance, any     *)
(* snapshot.  StrikerSpec, DribblerSpec: the same for a playing striker    *)
(* and a playing dribbler, with the history of the calls.  GoalSearchSpec: *)
(* the goal search of the striker.  KickoffSpec: the kickoff of the        *)
(* passer.  LoopSpec: the platform loops.  LocSpec: one call of            *)
(* Localization::estimate_position.  TriangulateSpec: one call of          *)
(* Localization::triangulate.  AngleSpec: the angle helpers.               *)
(* FragmentSpec: the assembly of MQTT fragments by mqtt_event_handler.     *)
(*                                                                         *)
(* Units.  Distances and field coordinates are integers in tenths of a     *)
(* metre (0.7f is 7, 52.5f is 525), angles are whole degrees, powers are   *)
(* the integers the source writes.  Every float the engine compares is a   *)
(* decimal with one fractional digit, so the comparisons of the source     *)
(* are the integer comparisons below.                                      *)
(***************************************************************************)
EXTENDS Integers, FiniteSets, Sequences, TLC

(***************************************************************************)
(* Bounds of the exploration.                                              *)
(***************************************************************************)
\* decide_action increments dribble_cycle_ on every call; at most MaxCycles
\* calls are explored between construction/reset() and the next reset().
MaxCycles == 4

(***************************************************************************)
(* messages.h : enumerations                                               *)
(***************************************************************************)
GameStatus == {"IDLE", "BEFORE_KICK_OFF", "PLAYING", "FINISHED"}

\* The role values the platform parsers can produce (main_pc.cpp:196-211,
\* main_esp32.cpp:141-156), which is what decide_action switches over.
PlayerRole ==
    {"STRIKER", "DRIBBLER", "PASSER", "RECEIVER", "GOALKEEPER", "DEFENDER",
     "STRIKER_GK_SIM"}

ActionType == {"NONE", "DASH", "TURN", "KICK", "CATCH", "MOVE"}

AgentState ==
    {"IDLE", "SEARCHING_BALL", "APPROACHING_BALL", "DRIBBLING", "SHOOTING",
     "PASSING", "DEFENDING", "CATCHING"}

(***************************************************************************)
(* game_logic.h : GameConfig and the private constants of GameLogic        *)
(***************************************************************************)
KICKABLE_DISTANCE == 7
CATCHABLE_DISTANCE == 20
CATCHABLE_DISTANCE_GK_SIM == 30
SHOOTING_DISTANCE == 250
KICK_POWER_SHOT == 100
KICK_POWER_PASS == 50
DRIBBLE_DISTANCE == 50
DRIBBLE_KICK_INTERVAL == 1

(***************************************************************************)
(* messages.h : Action and its factory functions.  params is params[0],    *)
(* params[1]; the default constructor zeroes both.                         *)
(***************************************************************************)
Action_none == [type |-> "NONE", params |-> <<0, 0>>]

Action_dash(power, direction) == [type |-> "DASH", params |-> <<power, direction>>]

Action_turn(angle) == [type |-> "TURN", params |-> <<angle, 0>>]

Action_kick(power, direction) == [type |-> "KICK", params |-> <<power, direction>>]

Action_catch_ball(direction) == [type |-> "CATCH", params |-> <<direction, 0>>]

(***************************************************************************)
(* messages.h : ObjectInfo, PlayerPosition (default constructors)          *)
(***************************************************************************)
ObjectInfo_default == [distance |-> 0, angle |-> 0, visible |-> FALSE]

ObjectInfo(d, a) == [distance |-> d, angle |-> a, visible |-> TRUE]

PlayerPosition_default == [x |-> 0, y |-> 0, heading |-> 0, valid |-> FALSE]

\* messages.h : TeammateInfo(id, d, a, v)
TeammateInfo(id, d, a, v) == [player_id |-> id, distance |-> d, angle |-> a, visible |-> v]

\* messages.h : FlagInfo.  A name is the sequence of the characters before
\* the terminating NUL.
FlagInfo_default == [name |-> <<>>, distance |-> 0, angle |-> 0, visible |-> FALSE]

FlagInfo(n, d, a) == [name |-> n, distance |-> d, angle |-> a, visible |-> TRUE]

PlayerPosition(px, py, h) == [x |-> px, y |-> py, heading |-> h, valid |-> TRUE]

(***************************************************************************)
(* localization.h                                                          *)
(***************************************************************************)
\* 1000 * tan((i - 1/2) degrees) for i = 1..90, to the nearest whole number.
TanTable ==
    <<9, 26, 44, 61, 79, 96, 114, 132, 149, 167,
      185, 203, 222, 240, 259, 277, 296, 315, 335, 354,
      374, 394, 414, 435, 456, 477, 499, 521, 543, 566,
      589, 613, 637, 662, 687, 713, 740, 767, 795, 824,
      854, 885, 916, 949, 983, 1018, 1054, 1091, 1130, 1171,
      1213, 1257, 1303, 1351, 1402, 1455, 1511, 1570, 1632, 1698,
      1767, 1842, 1921, 2006, 2097, 2194, 2300, 2414, 2539, 2675,
      2824, 2989, 3172, 3376, 3606, 3867, 4165, 4511, 4915, 5396,
      5976, 6691, 7596, 8777, 10385, 12706, 16350, 22904, 38188, 114589>>

fabsf(n) == IF n < 0 THEN -n ELSE n

\* atan(ay / ax) in degrees, to the nearest whole degree, for ay, ax >= 0 not
\* both 0: the number of half-degree marks at or below the slope.
AtanDeg(ay, ax) == Cardinality({i \in 1..90 : ay * 1000 >= ax * TanTable[i]})

\* atan2f(dy, dx) * 180 / 3.14159f rounded to the nearest whole degree; the
\* axis and diagonal directions are exact, atan2f(0, 0) is 0.
Atan2Deg(dy, dx) ==
    CASE dy = 0 /\ dx >= 0 -> 0
      [] dy = 0 /\ dx < 0 -> 180
      [] dx = 0 /\ dy > 0 -> 90
      [] dx = 0 /\ dy < 0 -> -90
      [] dy = dx /\ dx > 0 -> 45
      [] dy = dx /\ dx < 0 -> -135
      [] dy = -dx /\ dx > 0 -> -45
      [] dy = -dx /\ dx < 0 -> 135
      [] OTHER ->
            LET q == AtanDeg(fabsf(dy), fabsf(dx))
            IN  IF dx > 0 THEN (IF dy > 0 THEN q ELSE -q)
                ELSE (IF dy > 0 THEN 180 - q ELSE q - 180)

RECURSIVE normalize_angle(_)
normalize_angle(angle) ==
    IF angle > 180 THEN normalize_angle(angle - 360)
    ELSE IF angle < -180 THEN normalize_angle(angle + 360)
    ELSE angle

\* Mutant of angle_to_target: the heading is added to the bearing instead of
\* subtracted from it.
angle_to_target_adds_heading(pos, target_x, target_y) ==
    IF ~pos.valid THEN 0
    ELSE normalize_angle(Atan2Deg(target_y - pos.y, target_x - pos.x) + pos.heading)

angle_to_target(pos, target_x, target_y) ==
    IF ~pos.valid THEN 0
    ELSE normalize_angle(Atan2Deg(target_y - pos.y, target_x - pos.x) - pos.heading)

\* Mutant of angle_to_enemy_goal: the angle to the left goal (x = -52.5).
angle_to_enemy_goal_left(pos) == angle_to_target(pos, -525, 0)

angle_to_enemy_goal(pos) == angle_to_target(pos, 525, 0)

\* get_flag_position: `return true` with x and y set, `return false`.
Found(fx, fy) == [found |-> TRUE, x |-> fx, y |-> fy]

NotFound == [found |-> FALSE, x |-> 0, y |-> 0]

\* strncmp(name, prefix, Len(prefix)) == 0
HasPrefix(name, prefix) ==
    /\ Len(name) >= Len(prefix)
    /\ SubSeq(name, 1, Len(prefix)) = prefix

DigitValue ==
    [c \in {"0", "1", "2", "3", "4", "5", "6", "7", "8", "9"} |->
        CASE c = "0" -> 0 [] c = "1" -> 1 [] c = "2" -> 2 [] c = "3" -> 3
          [] c = "4" -> 4 [] c = "5" -> 5 [] c = "6" -> 6 [] c = "7" -> 7
          [] c = "8" -> 8 [] c = "9" -> 9]

\* while (*p >= '0' && *p <= '9') { num = num * 10 + (*p - '0'); ++p; }
\* with p at the i-th character of name.
RECURSIVE parse_number(_, _, _)
parse_number(name, i, num) ==
    IF i <= Len(name) /\ name[i] \in DOMAIN DigitValue
    THEN parse_number(name, i + 1, num * 10 + DigitValue[name[i]])
    ELSE num

\* The landmark table, in tenths of a metre (7.01f and 20.16f to the nearest
\* tenth).  name[2] and name[4] of the source are name[3] and name[5] here.
get_flag_position(name) ==
    CASE name = <<"f", " ", "c">> -> Found(0, 0)
      [] name = <<"f", " ", "l", " ", "t">> -> Found(-575, 390)
      [] name = <<"f", " ", "l", " ", "b">> -> Found(-575, -390)
      [] name = <<"f", " ", "r", " ", "t">> -> Found(575, 390)
      [] name = <<"f", " ", "r", " ", "b">> -> Found(575, -390)
      [] name = <<"f", " ", "c", " ", "t">> -> Found(0, 390)
      [] name = <<"f", " ", "c", " ", "b">> -> Found(0, -390)
      [] name = <<"f", " ", "l", " ", "0">> -> Found(-575, 0)
      [] name = <<"f", " ", "r", " ", "0">> -> Found(575, 0)
      [] name = <<"g", " ", "l">> -> Found(-525, 0)
      [] name = <<"g", " ", "r">> -> Found(525, 0)
      [] name = <<"f", " ", "g", " ", "l", " ", "t">> -> Found(-525, 70)
      [] name = <<"f", " ", "g", " ", "l", " ", "b">> -> Found(-525, -70)
      [] name = <<"f", " ", "g", " ", "r", " ", "t">> -> Found(525, 70)
      [] name = <<"f", " ", "g", " ", "r", " ", "b">> -> Found(525, -70)
      [] name = <<"f", " ", "p", " ", "l", " ", "t">> -> Found(-360, 202)
      [] name = <<"f", " ", "p", " ", "l", " ", "b">> -> Found(-360, -202)
      [] name = <<"f", " ", "p", " ", "l", " ", "c">> -> Found(-360, 0)
      [] name = <<"f", " ", "p", " ", "r", " ", "t">> -> Found(360, 202)
      [] name = <<"f", " ", "p", " ", "r", " ", "b">> -> Found(360, -202)
      [] name = <<"f", " ", "p", " ", "r", " ", "c">> -> Found(360, 0)
      [] \/ HasPrefix(name, <<"f", " ", "t", " ", "l", " ">>) \/ HasPrefix(name, <<"f", " ", "t", " ", "r", " ">>)
         \/ HasPrefix(name, <<"f", " ", "b", " ", "l", " ">>) \/ HasPrefix(name, <<"f", " ", "b", " ", "r", " ">>) ->
            LET num == parse_number(name, 7, 0)
            IN  Found(IF name[5] = "l" THEN -(num * 10) ELSE num * 10,
                      IF name[3] = "t" THEN 390 ELSE -390)
      [] \/ HasPrefix(name, <<"f", " ", "l", " ", "t", " ">>) \/ HasPrefix(name, <<"f", " ", "l", " ", "b", " ">>)
         \/ HasPrefix(name, <<"f", " ", "r", " ", "t", " ">>) \/ HasPrefix(name, <<"f", " ", "r", " ", "b", " ">>) ->
            LET num == parse_number(name, 7, 0)
            IN  Found(IF name[3] = "l" THEN -575 ELSE 575,
                      IF name[5] = "t" THEN num * 10 ELSE -(num * 10))
      [] OTHER -> NotFound

\* sqrtf, rounded down to a whole number of tenths.
ISqrt(n) == CHOOSE r \in 0..2000 : r * r <= n /\ n < (r + 1) * (r + 1)

\* Mutant of triangulate: circles that touch (d = r1 + r2 or d = |r1 - r2|)
\* are rejected like circles that do not meet.
triangulate_rejects_tangent(x1, y1, r1, x2, y2, r2) ==
    LET dx == x2 - x1
        dy == y2 - y1
        d_sq == dx * dx + dy * dy
        d == ISqrt(d_sq)
    IN  IF d_sq >= (r1 + r2) * (r1 + r2) \/ d_sq <= (r1 - r2) * (r1 - r2) \/ d_sq = 0
        THEN PlayerPosition_default
        ELSE LET a == (r1 * r1 - r2 * r2 + d_sq) \div (2 * d)
                 h_sq == r1 * r1 - a * a
             IN  IF h_sq < 0
                 THEN PlayerPosition_default
                 ELSE LET h == ISqrt(h_sq)
                          px == x1 + (a * dx) \div d
                          py == y1 + (a * dy) \div d
                          ix1 == px + (h * dy) \div d
                          iy1 == py - (h * dx) \div d
                          ix2 == px - (h * dy) \div d
                          iy2 == py + (h * dx) \div d
                          p1_in == ix1 >= -550 /\ ix1 <= 550 /\ iy1 >= -370 /\ iy1 <= 370
                          p2_in == ix2 >= -550 /\ ix2 <= 550 /\ iy2 >= -370 /\ iy2 <= 370
                      IN  IF p1_in /\ ~p2_in THEN PlayerPosition(ix1, iy1, 0)
                          ELSE IF p2_in /\ ~p1_in THEN PlayerPosition(ix2, iy2, 0)
                          ELSE PlayerPosition(ix1, iy1, 0)

\* Mutant of triangulate: the first computed candidate is returned whether
\* or not it lies inside the box.
triangulate_first_candidate(x1, y1, r1, x2, y2, r2) ==
    LET dx == x2 - x1
        dy == y2 - y1
        d_sq == dx * dx + dy * dy
        d == ISqrt(d_sq)
    IN  IF d_sq > (r1 + r2) * (r1 + r2) \/ d_sq < (r1 - r2) * (r1 - r2) \/ d_sq = 0
        THEN PlayerPosition_default
        ELSE LET a == (r1 * r1 - r2 * r2 + d_sq) \div (2 * d)
                 h_sq == r1 * r1 - a * a
             IN  IF h_sq < 0
                 THEN PlayerPosition_default
                 ELSE LET h == ISqrt(h_sq)
                          px == x1 + (a * dx) \div d
                          py == y1 + (a * dy) \div d
                          ix1 == px + (h * dy) \div d
                          iy1 == py - (h * dx) \div d
                      IN  PlayerPosition(ix1, iy1, 0)

\* Intersection of the circles of radius r1 about (x1, y1) and r2 about
\* (x2, y2).  The three tests on d are made on d * d, which is exact; the
\* quotients are whole numbers of tenths.
triangulate(x1, y1, r1, x2, y2, r2) ==
    LET dx == x2 - x1
        dy == y2 - y1
        d_sq == dx * dx + dy * dy
        d == ISqrt(d_sq)
    IN  IF d_sq > (r1 + r2) * (r1 + r2) \/ d_sq < (r1 - r2) * (r1 - r2) \/ d_sq = 0
        THEN PlayerPosition_default
        ELSE LET a == (r1 * r1 - r2 * r2 + d_sq) \div (2 * d)
                 h_sq == r1 * r1 - a * a
             IN  IF h_sq < 0
                 THEN PlayerPosition_default
                 ELSE LET h == ISqrt(h_sq)
                          px == x1 + (a * dx) \div d
                          py == y1 + (a * dy) \div d
                          ix1 == px + (h * dy) \div d
                          iy1 == py - (h * dx) \div d
                          ix2 == px - (h * dy) \div d
                          iy2 == py + (h * dx) \div d
                          p1_in == ix1 >= -550 /\ ix1 <= 550 /\ iy1 >= -370 /\ iy1 <= 370
                          p2_in == ix2 >= -550 /\ ix2 <= 550 /\ iy2 >= -370 /\ iy2 <= 370
                      IN  IF p1_in /\ ~p2_in THEN PlayerPosition(ix1, iy1, 0)
                          ELSE IF p2_in /\ ~p1_in THEN PlayerPosition(ix2, iy2, 0)
                          ELSE PlayerPosition(ix1, iy1, 0)

\* 1000 * sin(k degrees) for k = 0..90 (entry k + 1), to the nearest whole
\* number.
SinTable ==
    <<0, 17, 35, 52, 70, 87, 105, 122, 139, 156,
      174, 191, 208, 225, 242, 259, 276, 292, 309, 326,
      342, 358, 375, 391, 407, 423, 438, 454, 469, 485,
      500, 515, 530, 545, 559, 574, 588, 602, 616, 629,
      643, 656, 669, 682, 695, 707, 719, 731, 743, 755,
      766, 777, 788, 799, 809, 819, 829, 839, 848, 857,
      866, 875, 883, 891, 899, 906, 914, 921, 927, 934,
      940, 946, 951, 956, 961, 966, 970, 974, 978, 982,
      985, 988, 990, 993, 995, 996, 998, 999, 999, 1000,
      1000>>

\* 1000 * sinf and 1000 * cosf of a whole number of degrees in -180..180.
SinDeg(deg) ==
    IF deg < 0 THEN -SinTable[(IF deg < -90 THEN 180 + deg ELSE -deg) + 1]
    ELSE SinTable[(IF deg > 90 THEN 180 - deg ELSE deg) + 1]

CosDeg(deg) == SinDeg(90 - fabsf(deg))

\* The first loop of estimate_position from flags[i] on (i counts from 1):
\* known_flags once i passes count or ten entries are known.
RECURSIVE collect_known_flags(_, _, _, _)
collect_known_flags(flags, count, i, known) ==
    IF ~(i <= count /\ Len(known) < 10) THEN known
    ELSE IF ~flags[i].visible THEN collect_known_flags(flags, count, i + 1, known)
    ELSE LET f == get_flag_position(flags[i].name)
         IN  IF ~f.found THEN collect_known_flags(flags, count, i + 1, known)
             ELSE collect_known_flags(flags, count, i + 1,
                      Append(known, [x |-> f.x, y |-> f.y, dist |-> flags[i].distance,
                                     angle |-> flags[i].angle, valid |-> TRUE]))

\* The second loop of estimate_position: sin_sum and cos_sum over
\* known_flags[i..], seen from pos.
RECURSIVE heading_sums(_, _, _)
heading_sums(known, pos, i) ==
    IF i > Len(known) THEN [sin_sum |-> 0, cos_sum |-> 0]
    ELSE LET rest == heading_sums(known, pos, i + 1)
             angle_to_flag == Atan2Deg(known[i].y - pos.y, known[i].x - pos.x)
             heading == normalize_angle(angle_to_flag - known[i].angle)
         IN  [sin_sum |-> SinDeg(heading) + rest.sin_sum,
              cos_sum |-> CosDeg(heading) + rest.cos_sum]

\* Mutant of estimate_position: the last two known flags are triangulated
\* instead of the first two.
estimate_position_last_pair(flags, count) ==
    IF count < 2 THEN PlayerPosition_default
    ELSE LET known == collect_known_flags(flags, count, 1, <<>>)
             n == Len(known)
         IN  IF n < 2 THEN PlayerPosition_default
             ELSE LET pos == triangulate(known[n - 1].x, known[n - 1].y, known[n - 1].dist,
                                         known[n].x, known[n].y, known[n].dist)
                  IN  IF ~pos.valid THEN PlayerPosition_default
                      ELSE LET sums == heading_sums(known, pos, 1)
                           IN  [pos EXCEPT !.heading = Atan2Deg(sums.sin_sum, sums.cos_sum)]

estimate_position(flags, count) ==
    IF count < 2 THEN PlayerPosition_default
    ELSE LET known == collect_known_flags(flags, count, 1, <<>>)
         IN  IF Len(known) < 2 THEN PlayerPosition_default
             ELSE LET pos == triangulate(known[1].x, known[1].y, known[1].dist,
                                         known[2].x, known[2].y, known[2].dist)
                  IN  IF ~pos.valid THEN PlayerPosition_default
                      ELSE LET sums == heading_sums(known, pos, 1)
                           IN  [pos EXCEPT !.heading = Atan2Deg(sums.sin_sum, sums.cos_sum)]

(***************************************************************************)
(* game_logic.h : GameLogic.  An instance is the record of its members; a  *)
(* member function that returns an Action is an operator from the instance *)
(* (and its arguments) to the updated instance and the returned Action.    *)
(***************************************************************************)
GameLogic_new ==
    [current_state_       |-> "IDLE",
     dribble_cycle_       |-> 0,
     goal_search_cycles_  |-> 0,
     kickoff_phase_       |-> "INITIAL",
     receiver_run_cycles_ |-> 0,
     passer_kicked_       |-> FALSE,
     goalkeeper_caught_   |-> FALSE,
     goalkeeper_turned_   |-> FALSE]

\* Mutant of reset: the goalkeeper's one-time turn flag is not cleared.
reset_keeps_turned(self) ==
    [self EXCEPT !.current_state_ = "IDLE",
                 !.dribble_cycle_ = 0,
                 !.goal_search_cycles_ = 0,
                 !.kickoff_phase_ = "INITIAL",
                 !.receiver_run_cycles_ = 0,
                 !.passer_kicked_ = FALSE,
                 !.goalkeeper_caught_ = FALSE]

reset(self) ==
    [self EXCEPT !.current_state_ = "IDLE",
                 !.dribble_cycle_ = 0,
                 !.goal_search_cycles_ = 0,
                 !.kickoff_phase_ = "INITIAL",
                 !.receiver_run_cycles_ = 0,
                 !.passer_kicked_ = FALSE,
                 !.goalkeeper_caught_ = FALSE,
                 !.goalkeeper_turned_ = FALSE]

get_state(self) == self.current_state_

\* `return a;` from a member function that leaves the instance as self.
Return(self, a) == [self |-> self, ret |-> a]

\* current_state_ = st;
SetState(self, st) == [self EXCEPT !.current_state_ = st]

\* Mutant of search_ball: another search increment.
search_ball_turn15(self) ==
    Return(SetState(self, "SEARCHING_BALL"), Action_turn(15))

search_ball(self) ==
    Return(SetState(self, "SEARCHING_BALL"), Action_turn(30))

\* Mutant of approach_ball: the far dash goes straight ahead instead of
\* toward the ball's bearing.
approach_ball_forward(self, ball) ==
    IF ball.distance <= DRIBBLE_DISTANCE /\ ball.distance > KICKABLE_DISTANCE
    THEN IF self.dribble_cycle_ % DRIBBLE_KICK_INTERVAL = 0
         THEN Return(SetState(self, "DRIBBLING"), Action_kick(25, 0))
         ELSE Return(SetState(self, "DRIBBLING"), Action_dash(80, ball.angle))
    ELSE Return(SetState(self, "APPROACHING_BALL"),
                Action_dash(IF ball.distance > 100 THEN 100 ELSE 80, 0))

\* Mutant of approach_ball: the power of the far dash grows with the
\* distance of the ball (ten per metre) and is not capped.
approach_ball_uncapped(self, ball) ==
    IF ball.distance <= DRIBBLE_DISTANCE /\ ball.distance > KICKABLE_DISTANCE
    THEN IF self.dribble_cycle_ % DRIBBLE_KICK_INTERVAL = 0
         THEN Return(SetState(self, "DRIBBLING"), Action_kick(25, 0))
         ELSE Return(SetState(self, "DRIBBLING"), Action_dash(80, ball.angle))
    ELSE Return(SetState(self, "APPROACHING_BALL"),
                Action_dash(IF ball.distance > 80 THEN ball.distance ELSE 80,
                            ball.angle))

approach_ball(self, ball) ==
    IF ball.distance <= DRIBBLE_DISTANCE /\ ball.distance > KICKABLE_DISTANCE
    THEN IF self.dribble_cycle_ % DRIBBLE_KICK_INTERVAL = 0
         THEN Return(SetState(self, "DRIBBLING"), Action_kick(25, 0))
         ELSE Return(SetState(self, "DRIBBLING"), Action_dash(80, ball.angle))
    ELSE Return(SetState(self, "APPROACHING_BALL"),
                Action_dash(IF ball.distance > 100 THEN 100 ELSE 80, ball.angle))

\* Mutant of shoot_to_goal: the shot always goes straight ahead.
shoot_to_goal_forward(self, goal) ==
    Return(SetState(self, "SHOOTING"), Action_kick(100, 0))

shoot_to_goal(self, goal) ==
    Return(SetState(self, "SHOOTING"),
           Action_kick(100, IF goal.visible THEN goal.angle ELSE 0))

dribble_forward(self, sensors) ==
    IF sensors.position.valid
    THEN Return(SetState(self, "DRIBBLING"),
                Action_kick(30, angle_to_enemy_goal(sensors.position)))
    ELSE Return(SetState(self, "DRIBBLING"), Action_kick(30, 0))

\* Mutant of decide_striker: the pose is used without testing its valid flag.
decide_striker_unchecked_pose(self, sensors) ==
    LET ball == sensors.ball
        goal == sensors.goal
        found == [self EXCEPT !.goal_search_cycles_ = 0]
    IN  IF ~ball.visible THEN search_ball(found)
        ELSE IF ball.distance <= KICKABLE_DISTANCE
        THEN IF goal.visible /\ goal.distance < SHOOTING_DISTANCE
             THEN shoot_to_goal(found, goal)
             ELSE IF goal.visible
             THEN Return(SetState(found, "DRIBBLING"), Action_kick(30, goal.angle))
             ELSE IF sensors.position.x > 350
             THEN Return(SetState(self, "SHOOTING"),
                         Action_kick(100, angle_to_target(sensors.position, 525, 0)))
             ELSE Return(SetState(self, "DRIBBLING"),
                         Action_kick(30, angle_to_enemy_goal(sensors.position)))
        ELSE approach_ball(self, ball)

\* Mutant of decide_striker: with the goal in shooting range the striker
\* keeps dribbling with a soft kick instead of shooting.
decide_striker_soft_shot(self, sensors) ==
    LET ball == sensors.ball
        goal == sensors.goal
        found == [self EXCEPT !.goal_search_cycles_ = 0]
        searching == [self EXCEPT !.goal_search_cycles_ = @ + 1]
    IN  IF ~ball.visible THEN search_ball(found)
        ELSE IF ball.distance <= KICKABLE_DISTANCE
        THEN IF goal.visible
             THEN Return(SetState(found, "DRIBBLING"), Action_kick(30, goal.angle))
             ELSE IF sensors.position.valid
             THEN IF sensors.position.x > 350
                  THEN Return(SetState(self, "SHOOTING"),
                              Action_kick(100, angle_to_target(sensors.position, 525, 0)))
                  ELSE Return(SetState(self, "DRIBBLING"),
                              Action_kick(30, angle_to_enemy_goal(sensors.position)))
             ELSE IF searching.goal_search_cycles_ < 5
             THEN Return(SetState(searching, "SEARCHING_BALL"), Action_turn(30))
             ELSE dribble_forward(searching, sensors)
        ELSE approach_ball(self, ball)

\* Mutant of decide_striker: a kick aimed with the pose ends the scan for
\* the goal (goal_search_cycles_ = 0), as a kick aimed at the visible goal
\* does.
decide_striker_pose_ends_search(self, sensors) ==
    LET ball == sensors.ball
        goal == sensors.goal
        found == [self EXCEPT !.goal_search_cycles_ = 0]
        searching == [self EXCEPT !.goal_search_cycles_ = @ + 1]
    IN  IF ~ball.visible THEN search_ball(found)
        ELSE IF ball.distance <= KICKABLE_DISTANCE
        THEN IF goal.visible /\ goal.distance < SHOOTING_DISTANCE
             THEN shoot_to_goal(found, goal)
             ELSE IF goal.visible
             THEN Return(SetState(found, "DRIBBLING"), Action_kick(30, goal.angle))
             ELSE IF sensors.position.valid
             THEN IF sensors.position.x > 350
                  THEN Return(SetState(found, "SHOOTING"),
                              Action_kick(100, angle_to_target(sensors.position, 525, 0)))
                  ELSE Return(SetState(found, "DRIBBLING"),
                              Action_kick(30, angle_to_enemy_goal(sensors.position)))
             ELSE IF searching.goal_search_cycles_ < 5
             THEN Return(SetState(searching, "SEARCHING_BALL"), Action_turn(30))
             ELSE dribble_forward(searching, sensors)
        ELSE approach_ball(self, ball)

\* Mutant of decide_striker: the scan for the goal lasts one cycle longer.
decide_striker_scans_longer(self, sensors) ==
    LET ball == sensors.ball
        goal == sensors.goal
        found == [self EXCEPT !.goal_search_cycles_ = 0]
        searching == [self EXCEPT !.goal_search_cycles_ = @ + 1]
    IN  IF ~ball.visible THEN search_ball(found)
        ELSE IF ball.distance <= KICKABLE_DISTANCE
        THEN IF goal.visible /\ goal.distance < SHOOTING_DISTANCE
             THEN shoot_to_goal(found, goal)
             ELSE IF goal.visible
             THEN Return(SetState(found, "DRIBBLING"), Action_kick(30, goal.angle))
             ELSE IF sensors.position.valid
             THEN IF sensors.position.x > 350
                  THEN Return(SetState(self, "SHOOTING"),
                              Action_kick(100, angle_to_target(sensors.position, 525, 0)))
                  ELSE Return(SetState(self, "DRIBBLING"),
                              Action_kick(30, angle_to_enemy_goal(sensors.position)))
             ELSE IF searching.goal_search_cycles_ < 6
             THEN Return(SetState(searching, "SEARCHING_BALL"), Action_turn(30))
             ELSE dribble_forward(searching, sensors)
        ELSE approach_ball(self, ball)

\* Mutant of decide_striker: approaching a ball out of reach starts the scan
\* for the goal afresh.
decide_striker_approach_resets(self, sensors) ==
    LET ball == sensors.ball
        goal == sensors.goal
        found == [self EXCEPT !.goal_search_cycles_ = 0]
        searching == [self EXCEPT !.goal_search_cycles_ = @ + 1]
    IN  IF ~ball.visible THEN search_ball(found)
        ELSE IF ball.distance <= KICKABLE_DISTANCE
        THEN IF goal.visible /\ goal.distance < SHOOTING_DISTANCE
             THEN shoot_to_goal(found, goal)
             ELSE IF goal.visible
             THEN Return(SetState(found, "DRIBBLING"), Action_kick(30, goal.angle))
             ELSE IF sensors.position.valid
             THEN IF sensors.position.x > 350
                  THEN Return(SetState(self, "SHOOTING"),
                              Action_kick(100, angle_to_target(sensors.position, 525, 0)))
                  ELSE Return(SetState(self, "DRIBBLING"),
                              Action_kick(30, angle_to_enemy_goal(sensors.position)))
             ELSE IF searching.goal_search_cycles_ < 5
             THEN Return(SetState(searching, "SEARCHING_BALL"), Action_turn(30))
             ELSE dribble_forward(searching, sensors)
        ELSE approach_ball(found, ball)

decide_striker(self, sensors) ==
    LET ball == sensors.ball
        goal == sensors.goal
        found == [self EXCEPT !.goal_search_cycles_ = 0]
        searching == [self EXCEPT !.goal_search_cycles_ = @ + 1]
    IN  IF ~ball.visible THEN search_ball(found)
        ELSE IF ball.distance <= KICKABLE_DISTANCE
        THEN IF goal.visible /\ goal.distance < SHOOTING_DISTANCE
             THEN shoot_to_goal(found, goal)
             ELSE IF goal.visible
             THEN Return(SetState(found, "DRIBBLING"), Action_kick(30, goal.angle))
             ELSE IF sensors.position.valid
             THEN IF sensors.position.x > 350
                  THEN Return(SetState(self, "SHOOTING"),
                              Action_kick(100, angle_to_target(sensors.position, 525, 0)))
                  ELSE Return(SetState(self, "DRIBBLING"),
                              Action_kick(30, angle_to_enemy_goal(sensors.position)))
             ELSE IF searching.goal_search_cycles_ < 5
             THEN Return(SetState(searching, "SEARCHING_BALL"), Action_turn(30))
             ELSE dribble_forward(searching, sensors)
        ELSE approach_ball(self, ball)

\* Mutant of decide_dribbler: with the ball in reach and a valid pose in the
\* goal zone (x > 35) the dribbler shoots like the striker.
decide_dribbler_shoots(self, sensors) ==
    LET ball == sensors.ball
    IN  IF ~ball.visible THEN search_ball(self)
        ELSE IF ball.distance > KICKABLE_DISTANCE THEN approach_ball(self, ball)
        ELSE IF sensors.position.valid /\ sensors.position.x > 350
        THEN Return(SetState(self, "SHOOTING"),
                    Action_kick(100, angle_to_target(sensors.position, 525, 0)))
        ELSE dribble_forward(self, sensors)

\* Mutant of decide_dribbler: the distance of the ball is tested without
\* testing first that the ball is visible.
decide_dribbler_blind(self, sensors) ==
    LET ball == sensors.ball
    IN  IF ball.distance > KICKABLE_DISTANCE THEN approach_ball(self, ball)
        ELSE dribble_forward(self, sensors)

decide_dribbler(self, sensors) ==
    LET ball == sensors.ball
    IN  IF ~ball.visible THEN search_ball(self)
        ELSE IF ball.distance > KICKABLE_DISTANCE THEN approach_ball(self, ball)
        ELSE dribble_forward(self, sensors)

\* Mutant of decide_passer: the passer_kicked_ latch is not consulted.
decide_passer_ignores_latch(self, sensors) ==
    LET ball == sensors.ball
    IN  IF ~ball.visible THEN search_ball(self)
        ELSE IF ball.distance > KICKABLE_DISTANCE THEN approach_ball(self, ball)
        ELSE Return([self EXCEPT !.passer_kicked_ = TRUE], Action_kick(30, 0))

decide_passer(self, sensors) ==
    LET ball == sensors.ball
    IN  IF self.passer_kicked_ THEN Return(SetState(self, "IDLE"), Action_none)
        ELSE IF ~ball.visible THEN search_ball(self)
        ELSE IF ball.distance > KICKABLE_DISTANCE THEN approach_ball(self, ball)
        ELSE Return([self EXCEPT !.passer_kicked_ = TRUE], Action_kick(30, 0))

\* Mutant of decide_receiver: the receiver shoots at the goal whenever it
\* sees it, however far it is.
decide_receiver_always_shoots(self, sensors) ==
    LET ball == sensors.ball
        goal == sensors.goal
    IN  IF sensors.status # "PLAYING" THEN Return(SetState(self, "IDLE"), Action_none)
        ELSE IF ~ball.visible THEN search_ball(self)
        ELSE IF ball.distance > KICKABLE_DISTANCE THEN approach_ball(self, ball)
        ELSE IF goal.visible
        THEN shoot_to_goal(self, goal)
        ELSE dribble_forward(self, sensors)

decide_receiver(self, sensors) ==
    LET ball == sensors.ball
        goal == sensors.goal
    IN  IF sensors.status # "PLAYING" THEN Return(SetState(self, "IDLE"), Action_none)
        ELSE IF ~ball.visible THEN search_ball(self)
        ELSE IF ball.distance > KICKABLE_DISTANCE THEN approach_ball(self, ball)
        ELSE IF goal.visible /\ goal.distance < SHOOTING_DISTANCE
        THEN shoot_to_goal(self, goal)
        ELSE IF goal.visible
        THEN Return(SetState(self, "DRIBBLING"), Action_kick(30, goal.angle))
        ELSE dribble_forward(self, sensors)

\* Mutant of decide_goalkeeper: the catch does not set goalkeeper_caught_.
decide_goalkeeper_no_latch(self, sensors) ==
    LET ball == sensors.ball
    IN  IF self.goalkeeper_caught_ THEN Return(self, Action_none)
        ELSE IF ~self.goalkeeper_turned_
        THEN Return([self EXCEPT !.goalkeeper_turned_ = TRUE], Action_turn(180))
        ELSE IF ~ball.visible THEN Return(self, Action_none)
        ELSE IF ball.distance <= CATCHABLE_DISTANCE_GK_SIM
        THEN Return(SetState(self, "CATCHING"), Action_catch_ball(ball.angle))
        ELSE Return(self, Action_none)

\* Mutant of decide_goalkeeper: the initial turn does not set
\* goalkeeper_turned_.
decide_goalkeeper_turns_again(self, sensors) ==
    LET ball == sensors.ball
    IN  IF self.goalkeeper_caught_ THEN Return(self, Action_none)
        ELSE IF ~self.goalkeeper_turned_
        THEN Return(self, Action_turn(180))
        ELSE IF ~ball.visible THEN Return(self, Action_none)
        ELSE IF ball.distance <= CATCHABLE_DISTANCE_GK_SIM
        THEN Return([self EXCEPT !.goalkeeper_caught_ = TRUE,
                                 !.current_state_ = "CATCHING"],
                    Action_catch_ball(ball.angle))
        ELSE Return(self, Action_none)

\* Mutant of decide_goalkeeper: after the catch the goalkeeper clears the
\* ball with a forward kick instead of standing down.
decide_goalkeeper_clears(self, sensors) ==
    LET ball == sensors.ball
    IN  IF self.goalkeeper_caught_
        THEN Return(self, Action_kick(KICK_POWER_SHOT, 0))
        ELSE IF ~self.goalkeeper_turned_
        THEN Return([self EXCEPT !.goalkeeper_turned_ = TRUE], Action_turn(180))
        ELSE IF ~ball.visible THEN Return(self, Action_none)
        ELSE IF ball.distance <= CATCHABLE_DISTANCE_GK_SIM
        THEN Return([self EXCEPT !.goalkeeper_caught_ = TRUE,
                                 !.current_state_ = "CATCHING"],
                    Action_catch_ball(ball.angle))
        ELSE Return(self, Action_none)

decide_goalkeeper(self, sensors) ==
    LET ball == sensors.ball
    IN  IF self.goalkeeper_caught_ THEN Return(self, Action_none)
        ELSE IF ~self.goalkeeper_turned_
        THEN Return([self EXCEPT !.goalkeeper_turned_ = TRUE], Action_turn(180))
        ELSE IF ~ball.visible THEN Return(self, Action_none)
        ELSE IF ball.distance <= CATCHABLE_DISTANCE_GK_SIM
        THEN Return([self EXCEPT !.goalkeeper_caught_ = TRUE,
                                 !.current_state_ = "CATCHING"],
                    Action_catch_ball(ball.angle))
        ELSE Return(self, Action_none)

decide_striker_gk_sim(self, sensors) ==
    LET ball == sensors.ball
    IN  IF ~ball.visible
        THEN Return(SetState(self, "APPROACHING_BALL"), Action_dash(80, 0))
        ELSE IF ball.distance <= KICKABLE_DISTANCE
        THEN Return(SetState(self, "SHOOTING"), Action_kick(30, 0))
        ELSE Return(SetState(self, "APPROACHING_BALL"),
                    Action_dash(IF ball.distance > 30 THEN 80 ELSE 40, ball.angle))

decide_defender(self, sensors) ==
    LET ball == sensors.ball
    IN  IF ~ball.visible THEN search_ball(self)
        ELSE IF ball.distance < KICKABLE_DISTANCE
        THEN Return(SetState(self, "DEFENDING"), Action_none)
        ELSE Return(SetState(self, "DEFENDING"), Action_dash(80, ball.angle))

\* Mutant of handle_passer_kickoff: the kickoff kick does not set the
\* passer_kicked_ latch.
handle_passer_kickoff_no_latch(self, sensors) ==
    LET ball == sensors.ball
    IN  IF self.passer_kicked_ THEN Return(SetState(self, "IDLE"), Action_none)
        ELSE IF ~ball.visible
        THEN Return(SetState(self, "SEARCHING_BALL"), Action_turn(30))
        ELSE IF ball.distance <= KICKABLE_DISTANCE
        THEN Return(SetState(self, "PASSING"), Action_kick(40, 0))
        ELSE Return(SetState(self, "APPROACHING_BALL"),
                    Action_dash(IF ball.distance > 60 THEN 100
                                ELSE IF ball.distance > 30 THEN 80
                                ELSE IF ball.distance > 15 THEN 50
                                ELSE 30,
                                ball.angle))

\* Mutant of handle_passer_kickoff: the tiers of the dash include their lower
\* limit (>= for >), so a ball at exactly 6.0, 3.0 or 1.5 gets the power of
\* the tier above.
handle_passer_kickoff_inclusive_tiers(self, sensors) ==
    LET ball == sensors.ball
    IN  IF self.passer_kicked_ THEN Return(SetState(self, "IDLE"), Action_none)
        ELSE IF ~ball.visible
        THEN Return(SetState(self, "SEARCHING_BALL"), Action_turn(30))
        ELSE IF ball.distance <= KICKABLE_DISTANCE
        THEN Return([self EXCEPT !.passer_kicked_ = TRUE,
                                 !.current_state_ = "PASSING"],
                    Action_kick(40, 0))
        ELSE Return(SetState(self, "APPROACHING_BALL"),
                    Action_dash(IF ball.distance >= 60 THEN 100
                                ELSE IF ball.distance >= 30 THEN 80
                                ELSE IF ball.distance >= 15 THEN 50
                                ELSE 30,
                                ball.angle))

handle_passer_kickoff(self, sensors) ==
    LET ball == sensors.ball
    IN  IF self.passer_kicked_ THEN Return(SetState(self, "IDLE"), Action_none)
        ELSE IF ~ball.visible
        THEN Return(SetState(self, "SEARCHING_BALL"), Action_turn(30))
        ELSE IF ball.distance <= KICKABLE_DISTANCE
        THEN Return([self EXCEPT !.passer_kicked_ = TRUE,
                                 !.current_state_ = "PASSING"],
                    Action_kick(40, 0))
        ELSE Return(SetState(self, "APPROACHING_BALL"),
                    Action_dash(IF ball.distance > 60 THEN 100
                                ELSE IF ball.distance > 30 THEN 80
                                ELSE IF ball.distance > 15 THEN 50
                                ELSE 30,
                                ball.angle))

\* switch (sensors.role) of decide_action
dispatch_role(self, sensors) ==
    CASE sensors.role = "STRIKER" -> decide_striker(self, sensors)
      [] sensors.role = "DRIBBLER" -> decide_dribbler(self, sensors)
      [] sensors.role = "PASSER" -> decide_passer(self, sensors)
      [] sensors.role = "RECEIVER" -> decide_receiver(self, sensors)
      [] sensors.role = "GOALKEEPER" -> decide_goalkeeper(self, sensors)
      [] sensors.role = "DEFENDER" -> decide_defender(self, sensors)
      [] sensors.role = "STRIKER_GK_SIM" -> decide_striker_gk_sim(self, sensors)
      [] OTHER -> Return(self, Action_none)

\* Mutant of decide_action: only IDLE is treated as "not playing", so a
\* FINISHED snapshot is dispatched to the role handlers.
decide_action_finished_plays(self0, sensors) ==
    LET self == [self0 EXCEPT !.dribble_cycle_ = @ + 1]
    IN  IF sensors.status = "BEFORE_KICK_OFF"
        THEN IF sensors.role = "PASSER"
             THEN handle_passer_kickoff(self, sensors)
             ELSE Return(SetState(self, "IDLE"), Action_none)
        ELSE IF sensors.status = "IDLE"
        THEN Return(SetState(self, "IDLE"), Action_none)
        ELSE dispatch_role(self, sensors)

\* Mutant of decide_action: before kickoff only the passer is intercepted,
\* the other roles fall through to their handlers.
decide_action_kickoff_falls_through(self0, sensors) ==
    LET self == [self0 EXCEPT !.dribble_cycle_ = @ + 1]
    IN  IF sensors.status = "BEFORE_KICK_OFF" /\ sensors.role = "PASSER"
        THEN handle_passer_kickoff(self, sensors)
        ELSE IF sensors.status \notin {"PLAYING", "BEFORE_KICK_OFF"}
        THEN Return(SetState(self, "IDLE"), Action_none)
        ELSE dispatch_role(self, sensors)

decide_action(self0, sensors) ==
    LET self == [self0 EXCEPT !.dribble_cycle_ = @ + 1]
    IN  IF sensors.status = "BEFORE_KICK_OFF"
        THEN IF sensors.role = "PASSER"
             THEN handle_passer_kickoff(self, sensors)
             ELSE Return(SetState(self, "IDLE"), Action_none)
        ELSE IF sensors.status # "PLAYING"
        THEN Return(SetState(self, "IDLE"), Action_none)
        ELSE dispatch_role(self, sensors)

(***************************************************************************)
(* The snapshots given to the engine.                                      *)
(***************************************************************************)
\* Balls on both sides of the thresholds the role handlers compare the
\* distance against: 0.7 (kickable), 3.0 (catch), 5.0 (dribble zone), 10.0;
\* at bearing 0 and at a bearing that is not 0.
BallSet ==
    {ObjectInfo_default, ObjectInfo(5, 0), ObjectInfo(7, 45), ObjectInfo(30, 45),
     ObjectInfo(50, 0), ObjectInfo(51, 45), ObjectInfo(101, -20)}

\* The goal unseen, nearer than the shooting distance (25.0), and at it.
GoalSet == {ObjectInfo_default, ObjectInfo(200, 5), ObjectInfo(250, 5)}

\* Two unreliable poses with different contents, and two reliable ones on
\* either side of x = 35.0.
PoseSet ==
    {PlayerPosition_default,
     [x |-> 400, y |-> 0, heading |-> 90, valid |-> FALSE],
     [x |-> 0, y |-> 0, heading |-> 90, valid |-> TRUE],
     [x |-> 400, y |-> 0, heading |-> 0, valid |-> TRUE]}

SensorData ==
    [status : GameStatus, role : PlayerRole, ball : BallSet, goal : GoalSet,
     position : PoseSet]

\* messages.h : SensorData(), of the fields the engine and the loops read.
SensorData_default ==
    [status |-> "IDLE", role |-> "STRIKER", ball |-> ObjectInfo_default,
     goal |-> ObjectInfo_default, position |-> PlayerPosition_default]

(***************************************************************************)
(* State                                                                   *)
(***************************************************************************)
VARIABLES
    logic,      \* the GameLogic instance of the control loop
    action,     \* the Action the last decide_action call returned
    status,     \* sensors.status of the last decide_action call
    op,         \* the last operation applied to logic
    catches,    \* history: CATCH actions returned since construction/reset()
    passer_run, \* history: the kicks returned since construction/reset() as
                \* long as every call had role PASSER (only = TRUE)
    history     \* history kept by StrikerSpec: for every decide_action call
                \* since construction/reset(), in order, the snapshot given,
                \* the Action returned and the label left

\* The call of Localization::estimate_position that LocSpec explores.
VARIABLES
    loc             \* [flags, count]: the arguments; pos: the PlayerPosition
                    \* returned once op is "estimate_position"

\* The run of goal-search cycles that GoalSearchSpec follows, and the call of
\* Localization::angle_to_target or angle_to_enemy_goal that AngleSpec
\* explores.
VARIABLES
    search_run,     \* history: len, the decide_action calls since the last one
                    \* that was not for a playing striker with the ball in
                    \* reach, the goal unseen and an invalid pose; turns, the
                    \* turn(30) actions returned in a row at the end of them
    angle_call      \* [pos, target_x, target_y]: the arguments; ret: the angle
                    \* returned once op is the name of the function called

\* The call of Localization::triangulate that TriangulateSpec explores, and
\* the static fragment buffer of mqtt_event_handler (main_esp32.cpp) that
\* FragmentSpec explores.
VARIABLES
    tri_call,           \* [x1, y1, r1, x2, y2, r2]: the arguments; ret: the
                        \* PlayerPosition returned once op is "triangulate"
    mqtt_data_offset,   \* static int mqtt_data_offset
    fragment            \* history: the last MQTT_EVENT_DATA handled (data_len,
                        \* current_data_offset, total_data_len), whether it
                        \* completed a message, and the indices of
                        \* mqtt_data_buffer it wrote (first..last; last <
                        \* first when it wrote nothing)

\* tri_call where triangulate is not explored.
TriCall_none ==
    [x1 |-> 0, y1 |-> 0, r1 |-> 0, x2 |-> 0, y2 |-> 0, r2 |-> 0,
     ret |-> PlayerPosition_default, op |-> "none"]

\* fragment before the first MQTT_EVENT_DATA.
Fragment_none ==
    [data_len |-> 0, current_data_offset |-> 0, total_data_len |-> 0,
     is_complete |-> FALSE, first |-> 0, last |-> -1, op |-> "none"]

\* The variables of TriangulateSpec and FragmentSpec, which every other
\* specification leaves alone.
call_vars == <<tri_call, mqtt_data_offset, fragment>>

\* search_run outside a run.
SearchRun_none == [len |-> 0, turns |-> 0]

\* angle_call where the angle functions are not explored.
AngleCall_none ==
    [pos |-> PlayerPosition_default, target_x |-> 0, target_y |-> 0, ret |-> 0,
     op |-> "none"]

\* loc where estimate_position is not explored.
Loc_none ==
    [flags |-> <<>>, count |-> 0, pos |-> PlayerPosition_default, op |-> "none"]

\* The state of a platform control loop (LoopSpec): MQTTAgent::run of
\* main_pc.cpp, or mqtt_event_handler and agent_task of main_esp32.cpp.
VARIABLES
    platform,       \* "pc" or "esp32"; "none" where no loop drives the engine
    sensor_queue,   \* snapshots received from the broker and not yet taken by
                    \* the loop (sensor_queue; the consumer queue of client_)
    snapshot,       \* the loop's local `sensors`
    agent_pc,       \* where the loop is: "receive", "decide" (inside
                    \* decide_action), "check_finished", "reset" (inside reset)
    recent,         \* now - last_send_time < MIN_SEND_INTERVAL
    published,      \* <<a>> when this iteration has published a, else <<>>
    accessing,      \* the tasks now executing a member function of game_logic
    finished_seen,  \* history: the loop has taken a FINISHED snapshot from the
                    \* queue and reset() has not been called since
    last_decide     \* history: "never" until the loop first calls
                    \* decide_action, then "recent" while the last call is
                    \* less than MIN_SEND_INTERVAL ago, "old" afterwards

loop_vars ==
    <<platform, sensor_queue, snapshot, agent_pc, recent, published, accessing,
      finished_seen, last_decide>>

vars ==
    <<logic, action, status, op, catches, passer_run, history, loc, search_run,
      angle_call, platform, sensor_queue, snapshot, agent_pc, recent, published,
      accessing, finished_seen, last_decide, tri_call, mqtt_data_offset,
      fragment>>

\* passer_run before the first call and after reset().
PasserRun_new == [only |-> TRUE, kicks |-> 0, kickable_kicks |-> 0]

\* passer_run once a call had another role.
PasserRun_over == [only |-> FALSE, kicks |-> 0, kickable_kicks |-> 0]

\* kicks counts every KICK returned, kickable_kicks those returned for a
\* snapshot whose ball is visible within KICKABLE_DISTANCE.
PasserRun_next(run, sensors, ret) ==
    IF run.only /\ sensors.role = "PASSER"
    THEN [only |-> TRUE,
          kicks |-> run.kicks + (IF ret.type = "KICK" THEN 1 ELSE 0),
          kickable_kicks |->
              run.kickable_kicks +
              (IF /\ ret.type = "KICK"
                  /\ sensors.ball.visible
                  /\ sensors.ball.distance <= KICKABLE_DISTANCE
               THEN 1 ELSE 0)]
    ELSE PasserRun_over

Init ==
    /\ logic = GameLogic_new
    /\ action = Action_none
    /\ status = "IDLE"
    /\ op = "new"
    /\ catches = 0
    /\ passer_run = PasserRun_new
    /\ history = <<>>
    /\ loc = Loc_none
    /\ search_run = SearchRun_none
    /\ angle_call = AngleCall_none
    /\ platform = "none"
    /\ sensor_queue = <<>>
    /\ snapshot = SensorData_default
    /\ agent_pc = "receive"
    /\ recent = FALSE
    /\ published = <<>>
    /\ accessing = {}
    /\ finished_seen = FALSE
    /\ last_decide = "never"
    /\ tri_call = TriCall_none
    /\ mqtt_data_offset = 0
    /\ fragment = Fragment_none

\* One control cycle: Action action = logic.decide_action(sensors);
DecideAction ==
    \E sensors \in SensorData :
        LET r == decide_action(logic, sensors)
        IN  /\ logic.dribble_cycle_ < MaxCycles
            /\ logic' = r.self
            /\ action' = r.ret
            /\ status' = sensors.status
            /\ op' = "decide_action"
            /\ catches' = catches + (IF r.ret.type = "CATCH" THEN 1 ELSE 0)
            /\ passer_run' = PasserRun_next(passer_run, sensors, r.ret)
            /\ UNCHANGED call_vars
            /\ UNCHANGED <<history, loc, search_run, angle_call, loop_vars>>

\* logic.reset();
Reset ==
    /\ logic' = reset(logic)
    /\ op' = "reset"
    /\ catches' = 0
    /\ passer_run' = PasserRun_new
    /\ UNCHANGED call_vars
    /\ UNCHANGED <<action, status, history, loc, search_run, angle_call, loop_vars>>

Next == DecideAction \/ Reset

Spec == Init /\ [][Next]_vars

TypeOK ==
    /\ logic.current_state_ \in AgentState
    /\ logic.dribble_cycle_ \in 0..MaxCycles
    /\ action.type \in ActionType
    /\ status \in GameStatus
    /\ catches \in 0..MaxCycles

\* What decide_action returns, and leaves the instance as, when it is given
\* the snapshot s in the current state.
Out(s) == decide_action(logic, s)

\* The explored snapshots with the given statuses, roles, balls, goals and
\* poses.
Snapshots(statuses, roles, balls, goals, poses) ==
    [status : statuses, role : roles, ball : balls, goal : goals, position : poses]

\* The explored balls: not visible, within the kickable distance, beyond it.
InvisibleBalls == {b \in BallSet : ~b.visible}

KickableBalls == {b \in BallSet : b.visible /\ b.distance <= KICKABLE_DISTANCE}

FarBalls == {b \in BallSet : b.visible /\ b.distance > KICKABLE_DISTANCE}

\* The one-shot flags of the instance.
OneShotFlags(self) ==
    <<self.passer_kicked_, self.goalkeeper_caught_, self.goalkeeper_turned_>>

(***************************************************************************)
(* Properties of decide_action and reset                                   *)
(***************************************************************************)

\* C1: in every reachable state of the instance, decide_action given any
\* snapshot whose status is IDLE or FINISHED (any role, ball, goal, pose)
\* returns the action none and leaves the label IDLE.
C1_NotPlayingReturnsNone ==
    \A s \in Snapshots({"IDLE", "FINISHED"}, PlayerRole, BallSet, GoalSet, PoseSet) :
        LET r == Out(s)
        IN  /\ r.ret = Action_none
            /\ get_state(r.self) = "IDLE"

\* An instance whose goalkeeper has already caught is given a FINISHED
\* snapshot and answers none with the label IDLE.
C1_Witness ==
    /\ op = "decide_action"
    /\ status = "FINISHED"
    /\ logic.goalkeeper_caught_
    /\ action = Action_none
    /\ get_state(logic) = "IDLE"

\* C2: between construction/reset() and the next reset() at most one CATCH
\* is returned, and once one has been returned no snapshot (whatever the
\* role, the status and the ball) makes decide_action return CATCH again.
C2_AtMostOneCatch ==
    /\ catches <= 1
    /\ catches >= 1 => \A s \in SensorData : Out(s).ret.type # "CATCH"

\* The goalkeeper has turned, has caught once and has since taken another
\* playing decision, which returned none (of the playing decisions only the
\* goalkeeper's leave the label CATCHING in place).
C2_Witness ==
    /\ catches = 1
    /\ logic.goalkeeper_caught_
    /\ op = "decide_action"
    /\ status = "PLAYING"
    /\ action = Action_none
    /\ get_state(logic) = "CATCHING"
    /\ logic.dribble_cycle_ >= 3

\* C3: once passer_kicked_ is latched, decide_action returns none for every
\* snapshot with role PASSER (any status, any ball), and no decide_action
\* call of any role clears the latch: only reset() does.
C3_PasserStandsDown ==
    logic.passer_kicked_ =>
        \A s \in SensorData :
            LET r == Out(s)
            IN  /\ s.role = "PASSER" => r.ret = Action_none
                /\ r.self.passer_kicked_

\* After its kick the passer has been asked again, while playing, and has
\* returned none.
C3_Witness ==
    /\ logic.passer_kicked_
    /\ op = "decide_action"
    /\ status = "PLAYING"
    /\ action = Action_none
    /\ passer_run.only
    /\ passer_run.kicks >= 1

\* C4 as stated: an agent that is only ever given role PASSER returns a
\* KICK at most once between two resets.
C4_AtMostOneKick ==
    passer_run.only => passer_run.kicks <= 1

\* C4 amended: an agent that is only ever given role PASSER returns at most
\* one KICK for a ball within the kickable distance, and after that KICK no
\* PASSER snapshot yields a KICK any more; a KICK returned for a ball that is
\* not within the kickable distance is approach_ball's kick(25, 0), which
\* leaves passer_kicked_ as it was and so is not limited to one.
C4_AtMostOneKickableKick ==
    passer_run.only =>
        /\ passer_run.kickable_kicks <= 1
        /\ passer_run.kickable_kicks = 1 =>
               \A s \in Snapshots(GameStatus, {"PASSER"}, BallSet, GoalSet, PoseSet) :
                   Out(s).ret.type # "KICK"
        /\ \A s \in Snapshots(GameStatus, {"PASSER"}, BallSet \ KickableBalls,
                              GoalSet, PoseSet) :
               LET r == Out(s)
               IN  r.ret.type = "KICK" =>
                       /\ r.ret = Action_kick(25, 0)
                       /\ r.self.passer_kicked_ = logic.passer_kicked_

\* A passer-only run with a dribble-zone kick, then the kick for the ball in
\* reach, then a decision that returned none.
C4_Witness ==
    /\ passer_run.only
    /\ passer_run.kickable_kicks = 1
    /\ passer_run.kicks >= 2
    /\ op = "decide_action"
    /\ action = Action_none

\* C5: in every reachable state, decide_action given a BEFORE_KICK_OFF
\* snapshot with a role other than PASSER returns none, leaves the label
\* IDLE and leaves the three one-shot flags as they were.
C5_OnlyPasserActsBeforeKickoff ==
    \A s \in Snapshots({"BEFORE_KICK_OFF"}, PlayerRole \ {"PASSER"},
                       BallSet, GoalSet, PoseSet) :
        LET r == Out(s)
        IN  /\ r.ret = Action_none
            /\ get_state(r.self) = "IDLE"
            /\ OneShotFlags(r.self) = OneShotFlags(logic)

\* A BEFORE_KICK_OFF snapshot has been answered with none and the label
\* IDLE in a state where a one-shot flag is already set; the role was not
\* PASSER, because a passer that has not kicked never gets none before
\* kickoff.
C5_Witness ==
    /\ op = "decide_action"
    /\ status = "BEFORE_KICK_OFF"
    /\ action = Action_none
    /\ get_state(logic) = "IDLE"
    /\ ~logic.passer_kicked_
    /\ logic.goalkeeper_turned_

\* C6: right after reset() the instance equals a freshly constructed one in
\* every member, so decide_action gives the same action and the same next
\* state as for a fresh instance, for every snapshot.
C6_ResetEqualsFresh ==
    op = "reset" =>
        /\ logic = GameLogic_new
        /\ \A s \in SensorData : Out(s) = decide_action(GameLogic_new, s)

\* reset() has been applied to an instance that had returned a CATCH (every
\* goalkeeper flag set, counters advanced).
C6_Witness ==
    /\ op = "reset"
    /\ action.type = "CATCH"
    /\ logic = GameLogic_new

\* The explored poses whose valid flag is false.
InvalidPoses == {p \in PoseSet : ~p.valid}

\* C7: in every reachable state, two snapshots that differ only in the
\* x, y, heading of a pose whose valid flag is false get the same action and
\* the same next state from decide_action.
C7_InvalidPoseIgnored ==
    \A s \in Snapshots(GameStatus, PlayerRole, BallSet, GoalSet, InvalidPoses) :
        \A p \in InvalidPoses \ {s.position} :
            Out(s) = Out([s EXCEPT !.position = p])

\* A striker with the ball in reach, no goal in sight and an invalid pose has
\* been scanning for the goal (the only branch that counts goal-search
\* cycles is the one taken when the pose is invalid), and invalid poses on
\* both sides of x = 35.0 are explored.
C7_Witness ==
    /\ op = "decide_action"
    /\ status = "PLAYING"
    /\ logic.goal_search_cycles_ >= 2
    /\ action = Action_turn(30)
    /\ \E p, q \in InvalidPoses : p.x > 350 /\ q.x <= 350

\* The roles that search with search_ball.
SearchingRoles == {"STRIKER", "DRIBBLER", "RECEIVER", "DEFENDER"}

\* C8 as stated, for the roles striker, dribbler, passer, receiver and
\* defender: with status PLAYING and the ball not visible decide_action
\* returns turn(30) and sets the label SEARCHING_BALL in every reachable
\* state.
C8_InvisibleBallTurns ==
    \A s \in Snapshots({"PLAYING"}, SearchingRoles \cup {"PASSER"},
                       InvisibleBalls, GoalSet, PoseSet) :
        LET r == Out(s)
        IN  /\ r.ret = Action_turn(30)
            /\ get_state(r.self) = "SEARCHING_BALL"

\* C8 amended: with status PLAYING and the ball not visible, decide_action
\* returns turn(30) with label SEARCHING_BALL for striker, dribbler,
\* receiver, defender and for a passer that has not kicked yet; a passer
\* that has kicked gets none with label IDLE, and the role STRIKER_GK_SIM
\* gets dash(80, 0) with label APPROACHING_BALL.
C8_InvisibleBallTurnsUnlessStoodDown ==
    \A s \in Snapshots({"PLAYING"}, PlayerRole \ {"GOALKEEPER"},
                       InvisibleBalls, GoalSet, PoseSet) :
        LET r == Out(s)
        IN  /\ (\/ s.role \in SearchingRoles
                \/ s.role = "PASSER" /\ ~logic.passer_kicked_) =>
                   /\ r.ret = Action_turn(30)
                   /\ get_state(r.self) = "SEARCHING_BALL"
            /\ (s.role = "PASSER" /\ logic.passer_kicked_) =>
                   /\ r.ret = Action_none
                   /\ get_state(r.self) = "IDLE"
            /\ s.role = "STRIKER_GK_SIM" =>
                   /\ r.ret = Action_dash(80, 0)
                   /\ get_state(r.self) = "APPROACHING_BALL"

\* After the passer's kick the instance is given a playing snapshot without
\* ball for another role and turns to search (with goal_search_cycles_ = 0
\* a turn(30) is not the striker's scan for the goal, so the ball was not
\* visible).
C8_Witness ==
    /\ logic.passer_kicked_
    /\ op = "decide_action"
    /\ status = "PLAYING"
    /\ action = Action_turn(30)
    /\ get_state(logic) = "SEARCHING_BALL"
    /\ logic.goal_search_cycles_ = 0

\* The roles that go to the ball with approach_ball.
ApproachingRoles == {"STRIKER", "DRIBBLER", "RECEIVER"}

GoalsInRange == {g \in GoalSet : g.visible /\ g.distance < SHOOTING_DISTANCE}

VisibleTeammateLists ==
    {<<TeammateInfo(2, 100, 30, TRUE)>>,
     <<TeammateInfo(3, 50, -45, TRUE), TeammateInfo(2, 100, 30, TRUE)>>}

\* The snapshot s with the teammates tm (SensorData::teammates,
\* SensorData::teammate_count), which no handler of GameLogic reads.
WithTeammates(s, tm) ==
    [status |-> s.status, role |-> s.role, ball |-> s.ball, goal |-> s.goal,
     position |-> s.position, teammates |-> tm, teammate_count |-> Len(tm)]

\* C11: with status PLAYING, the ball visible within the kickable distance
\* and a first teammate visible at bearing t, a passer that has not kicked
\* yet gets kick(KICK_POWER_PASS, t) and the label becomes PASSING.
C11_PasserPassesToTeammate ==
    ~logic.passer_kicked_ =>
        \A s \in Snapshots({"PLAYING"}, {"PASSER"}, KickableBalls, GoalSet, PoseSet) :
            \A tm \in VisibleTeammateLists :
                LET r == Out(WithTeammates(s, tm))
                IN  /\ r.ret = Action_kick(KICK_POWER_PASS, tm[1].angle)
                    /\ get_state(r.self) = "PASSING"

\* The explored balls that are visible within CATCHABLE_DISTANCE.
CatchableBalls == {b \in BallSet : b.visible /\ b.distance <= CATCHABLE_DISTANCE}

\* C12: for role GOALKEEPER with status PLAYING and no catch used yet, a
\* snapshot with the ball visible within the catch distance gets a CATCH at
\* the ball's bearing and the label CATCHING, the first decision after
\* construction or reset() included.
C12_GoalkeeperCatchesCloseBall ==
    ~logic.goalkeeper_caught_ =>
        \A s \in Snapshots({"PLAYING"}, {"GOALKEEPER"}, CatchableBalls, GoalSet, PoseSet) :
            LET r == Out(s)
            IN  /\ r.ret = Action_catch_ball(s.ball.angle)
                /\ get_state(r.self) = "CATCHING"

\* C13: for role GOALKEEPER with status PLAYING, a snapshot with the ball not
\* visible gets none in every reachable state, the first decision after
\* construction or reset() included.
C13_GoalkeeperStaysWithoutBall ==
    \A s \in Snapshots({"PLAYING"}, {"GOALKEEPER"}, InvisibleBalls, GoalSet, PoseSet) :
        Out(s).ret = Action_none

\* C14 as stated: the playing decision of the goalkeeper that follows the
\* decision which returned the CATCH clears the ball with a forward KICK.
C14_ClearsAfterCatch ==
    (op = "decide_action" /\ action.type = "CATCH") =>
        \A s \in Snapshots({"PLAYING"}, {"GOALKEEPER"}, BallSet, GoalSet, PoseSet) :
            LET r == Out(s)
            IN  /\ r.ret.type = "KICK"
                /\ r.ret.params[2] = 0

\* C14 amended: once the goalkeeper has returned the CATCH, every decision
\* with role GOALKEEPER (any status, any ball) returns none, no clearing KICK
\* among them, and no decide_action call of any role clears
\* goalkeeper_caught_: only reset() does.
C14_StandsDownAfterCatch ==
    logic.goalkeeper_caught_ =>
        \A s \in SensorData :
            LET r == Out(s)
            IN  /\ s.role = "GOALKEEPER" => r.ret = Action_none
                /\ r.self.goalkeeper_caught_

\* The goalkeeper has turned, caught, and has then been asked twice more
\* (MaxCycles decisions in all); its last decision, a playing one, returned
\* none and left the label CATCHING.
C14_Witness ==
    /\ logic.goalkeeper_caught_
    /\ catches = 1
    /\ op = "decide_action"
    /\ status = "PLAYING"
    /\ action = Action_none
    /\ get_state(logic) = "CATCHING"
    /\ logic.dribble_cycle_ = 4

\* C15: for role DEFENDER with status PLAYING, a snapshot with the ball
\* visible within the kickable distance gets a KICK.
C15_DefenderClearsBall ==
    \A s \in Snapshots({"PLAYING"}, {"DEFENDER"}, KickableBalls, GoalSet, PoseSet) :
        Out(s).ret.type = "KICK"

\* The explored goals that are not visible.
InvisibleGoals == {g \in GoalSet : ~g.visible}

\* Valid poses on both sides of x = 35.0, the pose of the test
\* StrikerUsesTriangulationWhenGoalNotVisible among them.
ValidPoses ==
    {PlayerPosition(0, 0, 90), PlayerPosition(-200, 0, 0), PlayerPosition(350, 0, 0),
     PlayerPosition(351, 0, 0), PlayerPosition(400, 0, 0)}

\* C26: for a playing striker with the ball in reach, the goal unseen and a
\* valid pose, decide_action never returns a TURN: it returns
\* kick(30, angle_to_enemy_goal(pose)) with label DRIBBLING when pose.x <= 35
\* and kick(100, angle to (52.5, 0)) with label SHOOTING when pose.x > 35 (from
\* the field centre with heading 90 that is kick(30, -90), from (40, 0) with
\* heading 0 kick(100, 0)), and goal_search_cycles_ stays as it was.
C26_StrikerUsesPose ==
    /\ \A s \in Snapshots({"PLAYING"}, {"STRIKER"}, KickableBalls, InvisibleGoals,
                          ValidPoses) :
           LET r == Out(s)
           IN  /\ r.ret.type # "TURN"
               /\ IF s.position.x <= 350
                  THEN /\ r.ret = Action_kick(30, angle_to_enemy_goal(s.position))
                       /\ get_state(r.self) = "DRIBBLING"
                  ELSE /\ r.ret = Action_kick(100, angle_to_target(s.position, 525, 0))
                       /\ get_state(r.self) = "SHOOTING"
               /\ r.self.goal_search_cycles_ = logic.goal_search_cycles_
    /\ \A s \in Snapshots({"PLAYING"}, {"STRIKER"}, KickableBalls, InvisibleGoals,
                          {PlayerPosition(0, 0, 90)}) :
           Out(s).ret = Action_kick(30, -90)
    /\ \A s \in Snapshots({"PLAYING"}, {"STRIKER"}, KickableBalls, InvisibleGoals,
                          {PlayerPosition(400, 0, 0)}) :
           Out(s).ret = Action_kick(100, 0)

\* A striker that had been scanning for the goal got a valid pose in the
\* goal zone and shot with it (none of the explored goals is at bearing 0,
\* so kick(100, 0) is not a shot at a visible goal): the counter is still
\* what the scan left.
C26_Witness ==
    /\ op = "decide_action"
    /\ status = "PLAYING"
    /\ action = Action_kick(100, 0)
    /\ get_state(logic) = "SHOOTING"
    /\ logic.goal_search_cycles_ >= 2

\* Goals that are visible at the shooting distance or beyond it; the goal
\* of the test StrikerDribblesWhenGoalFar among them.
FarGoals == {ObjectInfo(250, 5), ObjectInfo(500, 0), ObjectInfo(500, -30)}

\* C28: for a playing striker or receiver with the ball in reach and the
\* goal visible at bearing g, not nearer than the shooting distance,
\* decide_action returns kick(30, g) with label DRIBBLING, and for the
\* striker goal_search_cycles_ becomes 0.
C28_DribblesTowardFarGoal ==
    \A s \in Snapshots({"PLAYING"}, {"STRIKER", "RECEIVER"}, KickableBalls, FarGoals,
                       PoseSet) :
        LET r == Out(s)
        IN  /\ r.ret = Action_kick(30, s.goal.angle)
            /\ get_state(r.self) = "DRIBBLING"
            /\ s.role = "STRIKER" => r.self.goal_search_cycles_ = 0

\* After earlier decisions a striker or receiver with the ball in reach has
\* kicked softly toward the goal seen at distance 25.0, bearing 5 (the only
\* kick(30, 5) the explored snapshots can get).
C28_Witness ==
    /\ op = "decide_action"
    /\ status = "PLAYING"
    /\ action = Action_kick(30, 5)
    /\ get_state(logic) = "DRIBBLING"
    /\ logic.goal_search_cycles_ = 0
    /\ logic.dribble_cycle_ >= 2

C30_CatchesWithinCatchableDistance ==
    logic.goalkeeper_turned_ =>
        \A s \in Snapshots({"PLAYING"}, {"GOALKEEPER"}, BallSet, GoalSet, PoseSet) :
            LET r == Out(s)
            IN  /\ r.ret.type = "CATCH" =>
                       s.ball.visible /\ s.ball.distance <= CATCHABLE_DISTANCE
                /\ (s.ball.visible /\ s.ball.distance > CATCHABLE_DISTANCE) =>
                       r.ret = Action_none

\* The labels that match each variant of Action; none matches any label.
MatchingLabels(type) ==
    CASE type = "TURN" -> {"SEARCHING_BALL"}
      [] type = "CATCH" -> {"CATCHING"}
      [] type = "KICK" -> {"DRIBBLING", "SHOOTING", "PASSING"}
      [] type = "DASH" -> {"APPROACHING_BALL", "DRIBBLING", "DEFENDING"}
      [] OTHER -> AgentState

\* C33: after every decide_action call the label get_state() returns matches
\* the action just returned: searching for a turn, catching for a catch,
\* dribbling, shooting or passing for a kick, and approaching, dribbling or
\* defending for a dash.
C33_LabelMatchesAction ==
    op = "decide_action" => get_state(logic) \in MatchingLabels(action.type)

\* The explored balls in the close dribble zone of approach_ball.
DribbleZoneBalls ==
    {b \in BallSet : b.visible /\ b.distance > KICKABLE_DISTANCE
                                /\ b.distance <= DRIBBLE_DISTANCE}

\* Playing snapshots of the roles whose handler approaches the ball in every
\* agent state, with the ball in the close dribble zone.
DribbleZoneSnapshots ==
    Snapshots({"PLAYING"}, {"STRIKER", "DRIBBLER", "RECEIVER"}, DribbleZoneBalls,
              {ObjectInfo_default}, {PlayerPosition_default})

\* C34: on two consecutive decisions with the ball visible in the close
\* dribble zone the engine returns the soft kick(25, 0) on one and
\* dash(80, bearing of the ball) on the other, with the label DRIBBLING on
\* both: a dash toward the ball at least every other cycle.
C34_KickAndDashAlternate ==
    \A s1 \in DribbleZoneSnapshots, s2 \in DribbleZoneSnapshots :
        LET r1 == Out(s1)
            r2 == decide_action(r1.self, s2)
        IN  /\ get_state(r1.self) = "DRIBBLING"
            /\ get_state(r2.self) = "DRIBBLING"
            /\ \/ r1.ret = Action_kick(25, 0) /\ r2.ret = Action_dash(80, s2.ball.angle)
               \/ r1.ret = Action_dash(80, s1.ball.angle) /\ r2.ret = Action_kick(25, 0)

(***************************************************************************)
(* A striker's play, with its history                                       *)
(***************************************************************************)
\* The snapshots of a striker that is playing: the ball unseen, at distance
\* 10.0 and at distance 0.5, both at bearing 0; the goal unseen or at
\* distance 20.0, bearing 0; an unreliable and a reliable pose.
StrikerSensorData ==
    Snapshots({"PLAYING"}, {"STRIKER"},
              {ObjectInfo_default, ObjectInfo(100, 0), ObjectInfo(5, 0)},
              {ObjectInfo_default, ObjectInfo(200, 0)},
              {PlayerPosition_default, [x |-> 0, y |-> 0, heading |-> 90, valid |-> TRUE]})

\* One control cycle of a playing striker, appended to history.
StrikerCycle ==
    \E sensors \in StrikerSensorData :
        LET r == decide_action(logic, sensors)
        IN  /\ logic.dribble_cycle_ < MaxCycles
            /\ logic' = r.self
            /\ action' = r.ret
            /\ status' = sensors.status
            /\ op' = "decide_action"
            /\ history' = Append(history, [sensors |-> sensors, ret |-> r.ret,
                                   label |-> get_state(r.self)])
            /\ UNCHANGED call_vars
            /\ UNCHANGED <<catches, passer_run, loc, search_run, angle_call, loop_vars>>

\* logic.reset(); the history starts again.
StrikerReset ==
    /\ logic' = reset(logic)
    /\ op' = "reset"
    /\ history' = <<>>
    /\ UNCHANGED call_vars
    /\ UNCHANGED <<action, status, catches, passer_run, loc, search_run, angle_call,
                   loop_vars>>

StrikerNext == StrikerCycle \/ StrikerReset

StrikerSpec == Init /\ [][StrikerNext]_vars

\* The first three snapshots of history are those of the end-to-end scenario:
\* ball unseen; ball at (10.0, 0); ball at (0.5, 0) with the goal at (20.0, 0).
ScenarioGiven ==
    /\ Len(history) >= 3
    /\ ~history[1].sensors.ball.visible
    /\ history[2].sensors.ball = ObjectInfo(100, 0)
    /\ history[3].sensors.ball = ObjectInfo(5, 0)
    /\ history[3].sensors.goal = ObjectInfo(200, 0)

\* C16: a fresh agent given the scenario's three striker snapshots returns,
\* in order, turn(30) with label SEARCHING_BALL, a DASH of power 80..100 and
\* direction 0 with label APPROACHING_BALL, and kick(100, 0) with label
\* SHOOTING.
C16_StrikerScenario ==
    ScenarioGiven =>
        /\ history[1].ret = Action_turn(30)
        /\ history[1].label = "SEARCHING_BALL"
        /\ history[2].ret.type = "DASH"
        /\ history[2].ret.params[1] \in 80..100
        /\ history[2].ret.params[2] = 0
        /\ history[2].label = "APPROACHING_BALL"
        /\ history[3].ret = Action_kick(100, 0)
        /\ history[3].label = "SHOOTING"

\* The scenario has been played from a fresh agent, which is now shooting.
C16_Witness ==
    /\ ScenarioGiven
    /\ Len(history) = 3
    /\ logic.dribble_cycle_ = 3
    /\ action = Action_kick(100, 0)
    /\ get_state(logic) = "SHOOTING"

(***************************************************************************)
(* A dribbler's play, with its history                                      *)
(***************************************************************************)
\* The snapshots of a dribbler: idle or playing; the ball unseen, in reach
\* or in the dribble zone; the goal unseen or near; no reliable pose or one
\* in the goal zone, where a striker shoots.
DribblerSensorData ==
    Snapshots({"IDLE", "PLAYING"}, {"DRIBBLER"},
              {ObjectInfo_default, ObjectInfo(5, 0), ObjectInfo(30, 45)},
              {ObjectInfo(200, 5)},
              {PlayerPosition_default, PlayerPosition(400, 0, 0)})

\* One control cycle of a dribbler, appended to history.
DribblerCycle ==
    \E sensors \in DribblerSensorData :
        LET r == decide_action(logic, sensors)
        IN  /\ logic.dribble_cycle_ < MaxCycles
            /\ logic' = r.self
            /\ action' = r.ret
            /\ status' = sensors.status
            /\ op' = "decide_action"
            /\ history' = Append(history, [sensors |-> sensors, ret |-> r.ret,
                                   label |-> get_state(r.self)])
            /\ UNCHANGED call_vars
            /\ UNCHANGED <<catches, passer_run, loc, search_run, angle_call, loop_vars>>

\* logic.reset(); the history starts again.
DribblerReset ==
    /\ logic' = reset(logic)
    /\ op' = "reset"
    /\ history' = <<>>
    /\ UNCHANGED call_vars
    /\ UNCHANGED <<action, status, catches, passer_run, loc, search_run, angle_call,
                   loop_vars>>

DribblerNext == DribblerCycle \/ DribblerReset

DribblerSpec == Init /\ [][DribblerNext]_vars

\* C27: over any sequence of dribbler snapshots no decision leaves the label
\* SHOOTING and none returns a KICK of power KICK_POWER_SHOT, and a decision
\* with status PLAYING and the ball visible within the kickable distance
\* returns a KICK and leaves the label DRIBBLING.
C27_DribblerNeverShoots ==
    /\ get_state(logic) # "SHOOTING"
    /\ \A i \in 1..Len(history) :
           LET h == history[i]
           IN  /\ h.label # "SHOOTING"
               /\ ~(h.ret.type = "KICK" /\ h.ret.params[1] = KICK_POWER_SHOT)
               /\ (/\ h.sensors.status = "PLAYING"
                   /\ h.sensors.ball.visible
                   /\ h.sensors.ball.distance <= KICKABLE_DISTANCE) =>
                      /\ h.ret.type = "KICK"
                      /\ h.label = "DRIBBLING"

\* A dribbler with the ball in reach, the goal in shooting range and a valid
\* pose in the goal zone has, after three other decisions, kicked softly
\* toward the goal with label DRIBBLING.
C27_Witness ==
    /\ Len(history) = 4
    /\ history[4].sensors.status = "PLAYING"
    /\ history[4].sensors.ball = ObjectInfo(5, 0)
    /\ history[4].sensors.position = PlayerPosition(400, 0, 0)
    /\ history[4].ret = Action_kick(30, 0)
    /\ history[4].label = "DRIBBLING"
    /\ history[1].ret = Action_turn(30)

(***************************************************************************)
(* The kickoff of the passer                                                *)
(***************************************************************************)
\* The balls of a kickoff: unseen, within the kickable distance (0.5 and
\* exactly 0.7), and beyond it on either side of each limit of the staged
\* dash (1.5, 3.0, 6.0) and inside its tiers, at several bearings.
KickoffBalls ==
    {ObjectInfo_default, ObjectInfo(5, 0), ObjectInfo(7, 45), ObjectInfo(8, 45),
     ObjectInfo(15, -20), ObjectInfo(16, 0), ObjectInfo(30, 45), ObjectInfo(31, 0),
     ObjectInfo(45, 90), ObjectInfo(60, -20), ObjectInfo(61, 45),
     ObjectInfo(101, 0), ObjectInfo(120, -90)}

\* The snapshots of a passer before the kickoff, and while playing.
KickoffSensorData ==
    Snapshots({"BEFORE_KICK_OFF", "PLAYING"}, {"PASSER"}, KickoffBalls,
              {ObjectInfo_default}, {PlayerPosition_default})

\* One control cycle of the passer.
KickoffCycle ==
    \E sensors \in KickoffSensorData :
        LET r == decide_action(logic, sensors)
        IN  /\ logic.dribble_cycle_ < MaxCycles
            /\ logic' = r.self
            /\ action' = r.ret
            /\ status' = sensors.status
            /\ op' = "decide_action"
            /\ UNCHANGED call_vars
            /\ UNCHANGED <<catches, passer_run, history, loc, search_run, angle_call,
                           loop_vars>>

\* logic.reset();
KickoffReset ==
    /\ logic' = reset(logic)
    /\ op' = "reset"
    /\ UNCHANGED call_vars
    /\ UNCHANGED <<action, status, catches, passer_run, history, loc, search_run,
                   angle_call, loop_vars>>

KickoffNext == KickoffCycle \/ KickoffReset

KickoffSpec == Init /\ [][KickoffNext]_vars

\* The kickoff snapshots: role PASSER, status BEFORE_KICK_OFF.
BeforeKickoff == {s \in KickoffSensorData : s.status = "BEFORE_KICK_OFF"}

\* C35: a passer that has not yet kicked, given a BEFORE_KICK_OFF snapshot,
\* returns turn(30) with label SEARCHING_BALL when the ball is not visible,
\* kick(40, 0) with label PASSING when it is within the kickable distance,
\* and otherwise a dash in the bearing of the ball with label
\* APPROACHING_BALL and power 100 for d > 6.0, 80 for 3.0 < d <= 6.0, 50 for
\* 1.5 < d <= 3.0 and 30 for 0.7 < d <= 1.5; so of two balls the nearer
\* never gets the greater power.
C35_KickoffTakerStagedDash ==
    ~logic.passer_kicked_ =>
        /\ \A s \in BeforeKickoff :
               LET r == Out(s)
                   d == s.ball.distance
               IN  IF ~s.ball.visible
                   THEN r.ret = Action_turn(30) /\ get_state(r.self) = "SEARCHING_BALL"
                   ELSE IF d <= KICKABLE_DISTANCE
                   THEN r.ret = Action_kick(40, 0) /\ get_state(r.self) = "PASSING"
                   ELSE /\ r.ret.type = "DASH"
                        /\ r.ret.params[2] = s.ball.angle
                        /\ get_state(r.self) = "APPROACHING_BALL"
                        /\ d > 60 => r.ret.params[1] = 100
                        /\ (30 < d /\ d <= 60) => r.ret.params[1] = 80
                        /\ (15 < d /\ d <= 30) => r.ret.params[1] = 50
                        /\ d <= 15 => r.ret.params[1] = 30
        /\ \A s1 \in BeforeKickoff, s2 \in BeforeKickoff :
               (/\ Out(s1).ret.type = "DASH"
                /\ Out(s2).ret.type = "DASH"
                /\ s1.ball.distance <= s2.ball.distance) =>
                   Out(s1).ret.params[1] <= Out(s2).ret.params[1]

\* The kickoff-taker, which has not kicked, has dashed at power 50 toward a
\* ball at exactly 3.0, after an earlier decision.
C35_Witness ==
    /\ op = "decide_action"
    /\ status = "BEFORE_KICK_OFF"
    /\ action = Action_dash(50, 45)
    /\ get_state(logic) = "APPROACHING_BALL"
    /\ ~logic.passer_kicked_
    /\ logic.dribble_cycle_ >= 2

(***************************************************************************)
(* The striker's scan for the goal                                          *)
(***************************************************************************)
\* decide_action calls explored between construction/reset() and the next
\* reset() in GoalSearchSpec.
MaxSearchCycles == 6

\* The snapshots of GoalSearchSpec: a playing striker with the ball unseen,
\* in reach or at 10.0, the goal unseen, at 20.0 or at 50.0, the pose invalid
\* or valid; and a striker before kickoff with the ball in reach.
GoalSearchSensorData ==
    Snapshots({"PLAYING"}, {"STRIKER"},
              {ObjectInfo_default, ObjectInfo(5, 0), ObjectInfo(100, 0)},
              {ObjectInfo_default, ObjectInfo(200, 0), ObjectInfo(500, 0)},
              {PlayerPosition_default, PlayerPosition(0, 0, 0)})
    \cup
    Snapshots({"BEFORE_KICK_OFF"}, {"STRIKER"}, {ObjectInfo(5, 0)},
              {ObjectInfo_default}, {PlayerPosition_default})

\* The snapshot is one of a playing striker that has the ball in reach, does
\* not see the goal and has no valid pose.
InGoalSearchCase(sensors) ==
    /\ sensors.status = "PLAYING"
    /\ sensors.role = "STRIKER"
    /\ sensors.ball.visible
    /\ sensors.ball.distance <= KICKABLE_DISTANCE
    /\ ~sensors.goal.visible
    /\ ~sensors.position.valid

\* search_run after a call with the snapshot sensors that returned ret.
SearchRun_next(r, sensors, ret) ==
    IF InGoalSearchCase(sensors)
    THEN [len |-> r.len + 1,
          turns |-> IF ret = Action_turn(30) THEN r.turns + 1 ELSE 0]
    ELSE SearchRun_none

\* One control cycle of the striker.
GoalSearchCycle ==
    \E sensors \in GoalSearchSensorData :
        LET r == decide_action(logic, sensors)
        IN  /\ logic.dribble_cycle_ < MaxSearchCycles
            /\ logic' = r.self
            /\ action' = r.ret
            /\ status' = sensors.status
            /\ op' = "decide_action"
            /\ search_run' = SearchRun_next(search_run, sensors, r.ret)
            /\ UNCHANGED call_vars
            /\ UNCHANGED <<catches, passer_run, history, loc, angle_call, loop_vars>>

\* logic.reset(); no run is in progress.
GoalSearchReset ==
    /\ logic' = reset(logic)
    /\ op' = "reset"
    /\ search_run' = SearchRun_none
    /\ UNCHANGED call_vars
    /\ UNCHANGED <<action, status, catches, passer_run, history, loc, angle_call,
                   loop_vars>>

GoalSearchNext == GoalSearchCycle \/ GoalSearchReset

GoalSearchSpec == Init /\ [][GoalSearchNext]_vars

\* C25: in a run of consecutive cycles of a playing striker with the ball in
\* reach, the goal unseen and the pose invalid, at most 4 turn(30) are
\* returned in a row, every cycle of the run from the 5th on returns
\* kick(30, 0) and leaves the label DRIBBLING, every cycle of the run returns
\* one of the two, and a fresh agent answers the first cycle with turn(30).
C25_BoundedGoalSearch ==
    /\ search_run.turns <= 4
    /\ search_run.len >= 5 =>
           /\ action = Action_kick(30, 0)
           /\ get_state(logic) = "DRIBBLING"
    /\ search_run.len >= 1 => action \in {Action_turn(30), Action_kick(30, 0)}
    /\ op \in {"new", "reset"} =>
           \A s \in GoalSearchSensorData :
               InGoalSearchCase(s) => Out(s).ret = Action_turn(30)

\* A fresh agent has been through a run of six such cycles: four turns,
\* then two forward kicks.
C25_Witness ==
    /\ search_run.len = 6
    /\ search_run.turns = 0
    /\ logic.goal_search_cycles_ = 6
    /\ logic.dribble_cycle_ = 6
    /\ action = Action_kick(30, 0)
    /\ get_state(logic) = "DRIBBLING"

\* C39 as stated: the counter is 0 whenever the last cycle was not a cycle of
\* such a run, so that a run starts from 0; and each of the first four
\* cycles of every run returns turn(30).
C39_SearchStartsAfresh ==
    /\ (op = "decide_action" /\ search_run.len = 0) => logic.goal_search_cycles_ = 0
    /\ search_run.len \in 1..4 => action = Action_turn(30)

\* The snapshot is one for which decide_striker sets the counter to 0: a
\* playing striker that does not see the ball, or has it in reach and sees
\* the goal.
EndsGoalSearch(sensors) ==
    /\ sensors.status = "PLAYING"
    /\ sensors.role = "STRIKER"
    /\ \/ ~sensors.ball.visible
       \/ sensors.ball.distance <= KICKABLE_DISTANCE /\ sensors.goal.visible

\* C39: the counter is set to 0 by construction, by reset() and by a cycle
\* of a playing striker that does not see the ball or has it in reach and
\* sees the goal; a cycle of a run adds 1 to it and returns turn(30) exactly
\* when the new count is below 5; every other cycle (ball out of reach,
\* valid pose, another status) leaves it as it is.  So the first four cycles
\* of a run return turn(30) when the run starts with the counter at 0, and a
\* run that starts with the counter at c > 0 returns 4 - c turns (none for
\* c >= 4) before the forward kicks.
C39_SearchContinuesCount ==
    /\ op \in {"new", "reset"} => logic.goal_search_cycles_ = 0
    /\ \A s \in GoalSearchSensorData :
           LET r == Out(s)
               c == logic.goal_search_cycles_
           IN  IF InGoalSearchCase(s)
               THEN /\ r.self.goal_search_cycles_ = c + 1
                    /\ r.ret = IF c + 1 < 5 THEN Action_turn(30) ELSE Action_kick(30, 0)
               ELSE IF EndsGoalSearch(s)
               THEN r.self.goal_search_cycles_ = 0
               ELSE r.self.goal_search_cycles_ = c
    /\ search_run.len >= 1 =>
           LET c == logic.goal_search_cycles_ - search_run.len
           IN  /\ c >= 0
               /\ action = Action_turn(30) <=> c + search_run.len <= 4
               /\ search_run.turns =
                      IF action = Action_turn(30) THEN search_run.len ELSE 0

\* A run of four turns was interrupted, and the first cycle of the next run
\* has returned the forward kick.
C39_Witness ==
    /\ search_run.len = 1
    /\ logic.goal_search_cycles_ = 5
    /\ action = Action_kick(30, 0)
    /\ get_state(logic) = "DRIBBLING"

(***************************************************************************)
(* The platform control loops: MQTTAgent::run (main_pc.cpp) and            *)
(* mqtt_event_handler with agent_task (main_esp32.cpp)                      *)
(***************************************************************************)
\* Snapshots held in the queue at a time in the exploration (sensor_queue
\* itself holds QUEUE_LENGTH).
MaxQueue == 1

\* xQueueCreate(10, sizeof(robocup::SensorData))
QUEUE_LENGTH == 10

\* The snapshots the broker sends: kickoff, play and end of play for a
\* passer with the ball in reach, and play for a passer, a goalkeeper and a
\* striker with the ball in the dribble zone.
LoopSensorData ==
    Snapshots({"BEFORE_KICK_OFF", "PLAYING", "FINISHED"}, {"PASSER"},
              {ObjectInfo(5, 0)}, {ObjectInfo_default}, {PlayerPosition_default})
    \cup
    Snapshots({"PLAYING"}, {"PASSER", "GOALKEEPER", "STRIKER"},
              {ObjectInfo(30, 45)}, {ObjectInfo_default}, {PlayerPosition_default})

\* Mutant of convert_invalid_kick: only a kick without a visible ball is
\* converted, the distance of the ball is not tested.
convert_invalid_kick_unseen_only(a, sensors) ==
    IF a.type = "KICK" /\ ~sensors.ball.visible
    THEN Action_dash(80, 0)
    ELSE a

\* "Si es kick pero la bola está fuera de rango, convertir a dash": what the
\* loop does to the Action decide_action returned, before publishing it.
convert_invalid_kick(a, sensors) ==
    IF a.type = "KICK" /\ (~sensors.ball.visible \/ sensors.ball.distance > 8)
    THEN Action_dash(80, IF sensors.ball.visible THEN sensors.ball.angle ELSE 0)
    ELSE a

\* Mutant of mqtt_event_handler: the handler itself resets the agent when a
\* FINISHED snapshot arrives.
mqtt_event_handler_resets(queue, sensors) ==
    [queue |-> IF Len(queue) < QUEUE_LENGTH THEN Append(queue, sensors) ELSE queue,
     game_logic_calls |-> IF sensors.status = "FINISHED" THEN {"reset"} ELSE {}]

\* case MQTT_EVENT_DATA of mqtt_event_handler, for a complete message on the
\* state topic parsed to sensors: xQueueSend(sensor_queue, &sensors, 0) drops
\* the snapshot when the queue is full; the handler calls no member function
\* of game_logic.
mqtt_event_handler(queue, sensors) ==
    [queue |-> IF Len(queue) < QUEUE_LENGTH THEN Append(queue, sensors) ELSE queue,
     game_logic_calls |-> {}]

\* The loop starts: GameLogic constructed, nothing received.  run() sets
\* last_send_time to now; agent_task sets it to tick 0, and is created only
\* after the WiFi connection is up, more than MIN_SEND_INTERVAL_MS later.
LoopInit ==
    /\ logic = GameLogic_new
    /\ action = Action_none
    /\ status = "IDLE"
    /\ op = "new"
    /\ catches = 0
    /\ passer_run = PasserRun_new
    /\ history = <<>>
    /\ loc = Loc_none
    /\ search_run = SearchRun_none
    /\ angle_call = AngleCall_none
    /\ platform \in {"pc", "esp32"}
    /\ sensor_queue = <<>>
    /\ snapshot = SensorData_default
    /\ agent_pc = "receive"
    /\ recent = (platform = "pc")
    /\ published = <<>>
    /\ accessing = {}
    /\ finished_seen = FALSE
    /\ last_decide = "never"
    /\ tri_call = TriCall_none
    /\ mqtt_data_offset = 0
    /\ fragment = Fragment_none

\* The variables of Spec that the loops leave alone.
engine_history ==
    <<status, op, catches, passer_run, history, loc, search_run, angle_call>>

\* last_decide once MIN_SEND_INTERVAL has passed since the last clock reading.
Expired(ld) == IF ld = "recent" THEN "old" ELSE ld

\* MIN_SEND_INTERVAL has passed since the last publication, and so since the
\* last decide_action call: a call that published was made at the clock
\* reading that became last_send_time, and a call that published nothing is
\* later than the last publication and is the only clock still running.
Tick ==
    /\ recent \/ last_decide = "recent"
    /\ recent' = FALSE
    /\ last_decide' = Expired(last_decide)
    /\ UNCHANGED call_vars
    /\ UNCHANGED <<logic, action, engine_history, platform, sensor_queue, snapshot,
                   agent_pc, published, accessing, finished_seen>>

\* main_pc.cpp: the client queues a message of the state topic for
\* try_consume_message_for.
PcMessageArrived ==
    /\ platform = "pc"
    /\ Len(sensor_queue) < MaxQueue
    /\ \E sensors \in LoopSensorData : sensor_queue' = Append(sensor_queue, sensors)
    /\ UNCHANGED call_vars
    /\ UNCHANGED <<logic, action, engine_history, platform, snapshot, agent_pc,
                   recent, published, accessing, finished_seen, last_decide>>

\* Mutant of PcConsume: the rate limit is not tested, every message consumed
\* leads to a decide_action call.
PcConsume_no_rate_limit ==
    /\ platform = "pc"
    /\ agent_pc = "receive"
    /\ sensor_queue # <<>>
    /\ logic.dribble_cycle_ < MaxCycles
    /\ snapshot' = Head(sensor_queue)
    /\ sensor_queue' = Tail(sensor_queue)
    /\ published' = <<>>
    /\ finished_seen' = (finished_seen \/ Head(sensor_queue).status = "FINISHED")
    /\ agent_pc' = "decide" /\ accessing' = accessing \cup {"run"}
    /\ UNCHANGED call_vars
    /\ UNCHANGED <<logic, action, engine_history, platform, recent, last_decide>>

\* main_pc.cpp: try_consume_message_for returned a message; parse_sensors;
\* `continue` when the rate limit says so, else decide_action is called.
\* (When no message comes within 50 ms the loop just tries again.)
PcConsume ==
    /\ platform = "pc"
    /\ agent_pc = "receive"
    /\ sensor_queue # <<>>
    /\ recent \/ logic.dribble_cycle_ < MaxCycles
    /\ snapshot' = Head(sensor_queue)
    /\ sensor_queue' = Tail(sensor_queue)
    /\ published' = <<>>
    /\ finished_seen' = (finished_seen \/ Head(sensor_queue).status = "FINISHED")
    /\ IF recent
       THEN UNCHANGED <<agent_pc, accessing>>
       ELSE agent_pc' = "decide" /\ accessing' = accessing \cup {"run"}
    /\ UNCHANGED call_vars
    /\ UNCHANGED <<logic, action, engine_history, platform, recent, last_decide>>

\* main_pc.cpp: decide_action returns; the kick conversion; publish unless
\* the action is NONE; back to the top of the loop.  There is no reset().
PcDecide ==
    /\ platform = "pc"
    /\ agent_pc = "decide"
    /\ LET r == decide_action(logic, snapshot)
           a == convert_invalid_kick(r.ret, snapshot)
       IN  /\ logic' = r.self
           /\ action' = r.ret
           /\ IF a.type # "NONE"
              THEN published' = <<a>> /\ recent' = TRUE
              ELSE UNCHANGED <<published, recent>>
    /\ accessing' = accessing \ {"run"}
    /\ agent_pc' = "receive"
    /\ last_decide' = "recent"
    /\ UNCHANGED call_vars
    /\ UNCHANGED <<engine_history, platform, sensor_queue, snapshot, finished_seen>>

\* main_esp32.cpp: mqtt_event_handler completes a message of the state topic.
MqttEventData ==
    /\ platform = "esp32"
    /\ Len(sensor_queue) < MaxQueue
    /\ \E sensors \in LoopSensorData :
           LET h == mqtt_event_handler(sensor_queue, sensors)
           IN  /\ sensor_queue' = h.queue
               /\ logic' = IF "reset" \in h.game_logic_calls THEN reset(logic) ELSE logic
               /\ accessing' = IF h.game_logic_calls # {}
                               THEN accessing \cup {"mqtt_event_handler"}
                               ELSE accessing
    /\ UNCHANGED call_vars
    /\ UNCHANGED <<action, engine_history, platform, snapshot, agent_pc, recent,
                   published, finished_seen, last_decide>>

\* Mutant of AgentReceive: the rate limit is not tested, every snapshot
\* received leads to a decide_action call.
AgentReceive_no_rate_limit ==
    /\ platform = "esp32"
    /\ agent_pc = "receive"
    /\ sensor_queue # <<>>
    /\ logic.dribble_cycle_ < MaxCycles
    /\ snapshot' = Head(sensor_queue)
    /\ sensor_queue' = Tail(sensor_queue)
    /\ published' = <<>>
    /\ finished_seen' = (finished_seen \/ Head(sensor_queue).status = "FINISHED")
    /\ agent_pc' = "decide" /\ accessing' = accessing \cup {"agent_task"}
    /\ UNCHANGED call_vars
    /\ UNCHANGED <<logic, action, engine_history, platform, recent, last_decide>>

\* agent_task: xQueueReceive returned pdTRUE; `continue` when the rate limit
\* says so (the FINISHED test at the end of the loop body is skipped), else
\* decide_action is called.
AgentReceive ==
    /\ platform = "esp32"
    /\ agent_pc = "receive"
    /\ sensor_queue # <<>>
    /\ recent \/ logic.dribble_cycle_ < MaxCycles
    /\ snapshot' = Head(sensor_queue)
    /\ sensor_queue' = Tail(sensor_queue)
    /\ published' = <<>>
    /\ finished_seen' = (finished_seen \/ Head(sensor_queue).status = "FINISHED")
    /\ IF recent
       THEN UNCHANGED <<agent_pc, accessing>>
       ELSE agent_pc' = "decide" /\ accessing' = accessing \cup {"agent_task"}
    /\ UNCHANGED call_vars
    /\ UNCHANGED <<logic, action, engine_history, platform, recent, last_decide>>

\* agent_task: xQueueReceive timed out after 100 ms with the queue empty;
\* `sensors` keeps the last snapshot.
AgentTimeout ==
    /\ platform = "esp32"
    /\ agent_pc = "receive"
    /\ sensor_queue = <<>>
    /\ recent' = FALSE
    /\ last_decide' = Expired(last_decide)
    /\ published' = <<>>
    /\ agent_pc' = "check_finished"
    /\ UNCHANGED call_vars
    /\ UNCHANGED <<logic, action, engine_history, platform, sensor_queue, snapshot,
                   accessing, finished_seen>>

\* agent_task: decide_action returns; the kick conversion; publish unless the
\* action is NONE.
AgentDecide ==
    /\ platform = "esp32"
    /\ agent_pc = "decide"
    /\ LET r == decide_action(logic, snapshot)
           a == convert_invalid_kick(r.ret, snapshot)
       IN  /\ logic' = r.self
           /\ action' = r.ret
           /\ IF a.type # "NONE"
              THEN published' = <<a>> /\ recent' = TRUE
              ELSE UNCHANGED <<published, recent>>
    /\ accessing' = accessing \ {"agent_task"}
    /\ agent_pc' = "check_finished"
    /\ last_decide' = "recent"
    /\ UNCHANGED call_vars
    /\ UNCHANGED <<engine_history, platform, sensor_queue, snapshot, finished_seen>>

\* agent_task: if (sensors.status == FINISHED) game_logic.reset() is called.
AgentCheckFinished ==
    /\ platform = "esp32"
    /\ agent_pc = "check_finished"
    /\ IF snapshot.status = "FINISHED"
       THEN agent_pc' = "reset" /\ accessing' = accessing \cup {"agent_task"}
       ELSE agent_pc' = "receive" /\ UNCHANGED accessing
    /\ UNCHANGED call_vars
    /\ UNCHANGED <<logic, action, engine_history, platform, sensor_queue, snapshot,
                   recent, published, finished_seen, last_decide>>

\* agent_task: game_logic.reset() returns.
AgentReset ==
    /\ platform = "esp32"
    /\ agent_pc = "reset"
    /\ logic' = reset(logic)
    /\ finished_seen' = FALSE
    /\ accessing' = accessing \ {"agent_task"}
    /\ agent_pc' = "receive"
    /\ UNCHANGED call_vars
    /\ UNCHANGED <<action, engine_history, platform, sensor_queue, snapshot, recent,
                   published, last_decide>>

LoopNext ==
    \/ Tick
    \/ PcMessageArrived
    \/ PcConsume
    \/ PcDecide
    \/ MqttEventData
    \/ AgentReceive
    \/ AgentTimeout
    \/ AgentDecide
    \/ AgentCheckFinished
    \/ AgentReset

LoopSpec == LoopInit /\ [][LoopNext]_vars

LoopTypeOK ==
    /\ platform \in {"pc", "esp32"}
    /\ Len(sensor_queue) <= MaxQueue
    /\ agent_pc \in {"receive", "decide", "check_finished", "reset"}
    /\ recent \in BOOLEAN
    /\ Len(published) <= 1
    /\ finished_seen \in BOOLEAN
    /\ last_decide \in {"never", "recent", "old"}

(***************************************************************************)
(* Properties of the platform control loops                                 *)
(***************************************************************************)

\* A kick may be published for the ball b: b is visible and not farther
\* than 0.8.
KickAllowed(b) == b.visible /\ b.distance <= 8

\* What an invalid kick is replaced by, for the ball b.
DashAtBall(b) == Action_dash(80, IF b.visible THEN b.angle ELSE 0)

\* C17: in both loops the action published in an iteration is never a KICK
\* when the iteration's snapshot has the ball not visible or farther than
\* 0.8; a KICK the engine returned for such a snapshot is published as
\* dash(80, bearing of the ball), bearing 0 for a ball that is not visible;
\* and this holds of the KICK any role returns in the current state of the
\* agent for any ball.
C17_NoInvalidKickPublished ==
    /\ published # <<>> =>
           /\ published[1].type = "KICK" => KickAllowed(snapshot.ball)
           /\ (action.type = "KICK" /\ ~KickAllowed(snapshot.ball)) =>
                  published[1] = DashAtBall(snapshot.ball)
    /\ action.type = "KICK" =>
           \A b \in BallSet :
               convert_invalid_kick(action, [snapshot EXCEPT !.ball = b]) =
                   IF KickAllowed(b) THEN action ELSE DashAtBall(b)
    /\ agent_pc = "decide" =>
           \A role \in PlayerRole, b \in BallSet :
               LET s == [snapshot EXCEPT !.role = role, !.ball = b]
                   a == convert_invalid_kick(Out(s).ret, s)
               IN  a.type = "KICK" => KickAllowed(b)

\* agent_task has published dash(80, 45) in place of the kick(25, 0) the
\* engine returned for a ball at distance 3.0, bearing 45.
C17_Witness ==
    /\ platform = "esp32"
    /\ action = Action_kick(25, 0)
    /\ snapshot.ball = ObjectInfo(30, 45)
    /\ published = <<Action_dash(80, 45)>>

\* C18: in the ESP32 firmware only agent_task ever executes a member
\* function of game_logic, and it is inside one exactly while it is at its
\* decide_action or reset call; so no two calls overlap, whatever
\* mqtt_event_handler does meanwhile (it only enqueues).
C18_OnlyAgentTaskAccesses ==
    platform = "esp32" =>
        /\ accessing \subseteq {"agent_task"}
        /\ accessing = {"agent_task"} <=> agent_pc \in {"decide", "reset"}

\* mqtt_event_handler has enqueued a snapshot while agent_task was inside
\* reset() (the queue was emptied by the receive that led to this call, or
\* was empty at the timeout).
C18_Witness ==
    /\ platform = "esp32"
    /\ agent_pc = "reset"
    /\ accessing = {"agent_task"}
    /\ Len(sensor_queue) = MaxQueue
    /\ logic.passer_kicked_

\* C19: once the loop has taken a FINISHED snapshot, decide_action is not
\* called for a BEFORE_KICK_OFF or PLAYING snapshot before reset() has been
\* called.
C19_ResetBeforeNextPlay ==
    (agent_pc = "decide" /\ snapshot.status \in {"BEFORE_KICK_OFF", "PLAYING"}) =>
        ~finished_seen

\* C31 as stated: in both loops a decide_action call is never made less than
\* MIN_SEND_INTERVAL (75 ms) after the previous call, whatever the previous
\* call returned.
C31_MinimumDecisionInterval ==
    agent_pc = "decide" => last_decide # "recent"

\* C31: in both loops decide_action is called only when MIN_SEND_INTERVAL
\* (75 ms) has passed since the last publication; a call made less than
\* 75 ms after the previous call follows a call that returned none, after
\* which nothing was published and the limiter's clock was not restarted.
C31_MinimumIntervalAfterPublication ==
    agent_pc = "decide" =>
        /\ ~recent
        /\ last_decide = "recent" => action = Action_none

\* run() is inside decide_action again, 75 ms or more after the call that
\* returned the passer's kick, which was published.
C31_Witness ==
    /\ platform = "pc"
    /\ agent_pc = "decide"
    /\ last_decide = "old"
    /\ action.type = "KICK"
    /\ logic.passer_kicked_

\* This step takes a snapshot from the queue of the loop.
TakesSnapshot == Len(sensor_queue') < Len(sensor_queue)

\* C32: in both loops an action is published only when MIN_SEND_INTERVAL
\* (75 ms) has passed since the last publication, and a snapshot the loop
\* takes less than 75 ms after the last publication is dropped: the loop
\* does not call decide_action for it, publishes nothing and is back at its
\* receive, and the agent and the action last returned are as before.
C32_RateLimitedPublication ==
    [][/\ (agent_pc = "decide" /\ published' # <<>>) => ~recent
       /\ published' # published => (published = <<>> /\ agent_pc = "decide")
                                     \/ (published' = <<>> /\ agent_pc = "receive")
       /\ (TakesSnapshot /\ recent) =>
              /\ agent_pc' = "receive"
              /\ published' = <<>>
              /\ recent'
              /\ logic' = logic
              /\ action' = action]_vars

\* agent_task has dropped a PLAYING snapshot that came less than 75 ms after
\* it published the passer's kick: the kick is still the last action
\* returned.
C32_Witness ==
    /\ platform = "esp32"
    /\ agent_pc = "receive"
    /\ recent
    /\ published = <<>>
    /\ snapshot.status = "PLAYING"
    /\ action.type = "KICK"
    /\ logic.passer_kicked_

(***************************************************************************)
(* mqtt_event_handler, case MQTT_EVENT_DATA: the assembly of fragments      *)
(***************************************************************************)
\* sizeof(mqtt_data_buffer)
MQTT_DATA_BUFFER_SIZE == 2048

\* int is 32 bits wide on the targets of the firmware.
INT_MAX == 2147483647

INT_MIN == -INT_MAX - 1

\* a + b in int.  A sum outside INT_MIN..INT_MAX is computed in a 32-bit
\* register and wraps around.
add32(a, b) ==
    IF a > 0 /\ b > INT_MAX - a THEN INT_MIN + ((a - 1) - (INT_MAX - b))
    ELSE IF a < 0 /\ b < INT_MIN - a THEN (((a - INT_MIN) + b) + INT_MAX) + 1
    ELSE a + b

\* (size_t) n >= limit for an int n and a limit below 2^31: a negative n
\* converts to a value of 2^31 or more.
unsigned_ge(n, limit) == n < 0 \/ n >= limit

\* Mutant of MQTT_EVENT_DATA: the copy is cut at the size of the buffer, with
\* no room left for the terminating zero.
MQTT_EVENT_DATA_no_terminator(offset, event) ==
    LET start == IF event.current_data_offset = 0 THEN 0 ELSE offset
        copy_len == IF unsigned_ge(add32(start, event.data_len), MQTT_DATA_BUFFER_SIZE)
                    THEN MQTT_DATA_BUFFER_SIZE - start
                    ELSE event.data_len
        copied == IF copy_len > 0 THEN start + copy_len ELSE start
        is_complete == add32(event.current_data_offset, event.data_len)
                           >= event.total_data_len
    IN  [mqtt_data_offset |-> IF is_complete THEN 0 ELSE copied,
         first |-> start,
         last |-> copied - 1,
         is_complete |-> is_complete]

\* case MQTT_EVENT_DATA of mqtt_event_handler, from the value offset of
\* mqtt_data_offset: a fragment at current_data_offset 0 starts a message;
\* the copy is cut so that it ends before the last byte of the buffer (the
\* test is made in size_t); mqtt_data_buffer[first..last] is written when
\* copy_len > 0; a fragment that completes the message sets mqtt_data_offset
\* back to 0.
MQTT_EVENT_DATA(offset, event) ==
    LET start == IF event.current_data_offset = 0 THEN 0 ELSE offset
        copy_len == IF unsigned_ge(add32(start, event.data_len),
                                   MQTT_DATA_BUFFER_SIZE - 1)
                    THEN MQTT_DATA_BUFFER_SIZE - 1 - start
                    ELSE event.data_len
        copied == IF copy_len > 0 THEN start + copy_len ELSE start
        is_complete == add32(event.current_data_offset, event.data_len)
                           >= event.total_data_len
    IN  [mqtt_data_offset |-> IF is_complete THEN 0 ELSE copied,
         first |-> start,
         last |-> copied - 1,
         is_complete |-> is_complete]

\* The fragments delivered: data_len negative, zero, within the buffer, one
\* short of it, as long as it, longer, and the greatest int;
\* current_data_offset at the start of a message and inside it;
\* total_data_len zero, within the buffer and beyond it.
FragmentEvents ==
    [data_len : {-1, 0, 700, 1000, MQTT_DATA_BUFFER_SIZE - 2,
                 MQTT_DATA_BUFFER_SIZE - 1, MQTT_DATA_BUFFER_SIZE, 5000, INT_MAX},
     current_data_offset : {0, 700, 1000, 5000},
     total_data_len : {0, 1000, 1700, 5000, 10000}]

FragmentInit ==
    /\ logic = GameLogic_new
    /\ action = Action_none
    /\ status = "IDLE"
    /\ op = "new"
    /\ catches = 0
    /\ passer_run = PasserRun_new
    /\ history = <<>>
    /\ loc = Loc_none
    /\ search_run = SearchRun_none
    /\ angle_call = AngleCall_none
    /\ platform = "none"
    /\ sensor_queue = <<>>
    /\ snapshot = SensorData_default
    /\ agent_pc = "receive"
    /\ recent = FALSE
    /\ published = <<>>
    /\ accessing = {}
    /\ finished_seen = FALSE
    /\ last_decide = "never"
    /\ tri_call = TriCall_none
    /\ mqtt_data_offset = 0
    /\ fragment = Fragment_none

\* mqtt_event_handler is called with event_id MQTT_EVENT_DATA.
MqttFragment ==
    \E event \in FragmentEvents :
        LET h == MQTT_EVENT_DATA(mqtt_data_offset, event)
        IN  /\ mqtt_data_offset' = h.mqtt_data_offset
            /\ fragment' = [data_len |-> event.data_len,
                            current_data_offset |-> event.current_data_offset,
                            total_data_len |-> event.total_data_len,
                            is_complete |-> h.is_complete,
                            first |-> h.first, last |-> h.last,
                            op |-> "MQTT_EVENT_DATA"]
            /\ UNCHANGED <<logic, action, engine_history, loop_vars, tri_call>>

FragmentNext == MqttFragment

FragmentSpec == FragmentInit /\ [][FragmentNext]_vars

\* C40: after any sequence of MQTT_EVENT_DATA fragments mqtt_data_offset is
\* within 0..2047, the last fragment wrote no byte of mqtt_data_buffer
\* below index 0 or at or beyond index 2047, and mqtt_data_offset is 0 when
\* the last fragment completed a message.
C40_FragmentBufferBounded ==
    /\ mqtt_data_offset >= 0
    /\ mqtt_data_offset <= 2047
    /\ fragment.last >= fragment.first => (fragment.first >= 0 /\ fragment.last < 2047)
    /\ (fragment.op = "MQTT_EVENT_DATA" /\ fragment.is_complete) =>
           mqtt_data_offset = 0

\* A fragment of 1000 bytes at offset 1000 of a longer message, after one
\* that left mqtt_data_offset at 1700, has been cut to fill the buffer up to
\* index 2046.
C40_Witness ==
    /\ fragment.op = "MQTT_EVENT_DATA"
    /\ fragment.data_len = 1000
    /\ fragment.current_data_offset = 1000
    /\ ~fragment.is_complete
    /\ fragment.first = 1700
    /\ fragment.last = 2046
    /\ mqtt_data_offset = 2047

(***************************************************************************)
(* Properties of the actions returned and of their rewrite by the loops     *)
(* (checked under Spec, for every snapshot in every state of the agent)     *)
(***************************************************************************)
\* The snapshots of SensorData and, for every status and role, the balls on
\* either side of the limits of the kickoff-taker's staged dash.
PowerSnapshots ==
    SensorData \cup
    Snapshots(GameStatus, PlayerRole,
              {ObjectInfo(8, 45), ObjectInfo(15, -20), ObjectInfo(16, 0),
               ObjectInfo(31, 0), ObjectInfo(60, -20), ObjectInfo(61, 45)},
              {ObjectInfo_default}, {PlayerPosition_default})

\* a is one variant of Action as its factory function builds it: one type,
\* and no parameter set that the variant does not have.
OneVariant(a) ==
    /\ a.type \in ActionType
    /\ a.type = "NONE" => a.params = <<0, 0>>
    /\ a.type \in {"TURN", "CATCH"} => a.params[2] = 0

\* The power of a dash or kick lies within [0, 100].
PowerInRange(a) ==
    a.type \in {"DASH", "KICK"} => (a.params[1] >= 0 /\ a.params[1] <= 100)

\* C37: for every role, status and snapshot, in every reachable agent state,
\* the action decide_action returns is one variant of Action, a dash or
\* kick among them has a power within [0, 100], and so has the action the
\* platform's kick-to-dash rewrite turns it into.
C37_PowerWithinRange ==
    \A s \in PowerSnapshots :
        LET r == Out(s)
            a == convert_invalid_kick(r.ret, s)
        IN  /\ OneVariant(r.ret)
            /\ PowerInRange(r.ret)
            /\ OneVariant(a)
            /\ PowerInRange(a)

\* decide_action has returned a dash at full power, toward a ball farther
\* than 10.0.
C37_Witness ==
    /\ op = "decide_action"
    /\ status = "PLAYING"
    /\ action = Action_dash(100, -20)
    /\ get_state(logic) = "APPROACHING_BALL"

\* The snapshots, of every status and role, whose ball is not visible.
BallUnseen == Snapshots(GameStatus, PlayerRole, InvisibleBalls, GoalSet, PoseSet)

\* C38: in every reachable agent state, decide_action returns neither a KICK
\* nor a CATCH for a snapshot whose ball is not visible, whatever its status
\* and role; so the loops' rewrite leaves the action returned for such a
\* snapshot as it is: its arm for a ball that is not visible is not taken.
C38_NoKickOrCatchWithoutBall ==
    \A s \in BallUnseen :
        LET r == Out(s)
        IN  /\ r.ret.type \notin {"KICK", "CATCH"}
            /\ convert_invalid_kick(r.ret, s) = r.ret

\* A goalkeeper that has made its turn and would catch a ball in reach
\* returns none when the snapshot has no ball, and a striker that would
\* shoot returns turn(30).
C38_Witness ==
    /\ op = "decide_action"
    /\ action = Action_turn(180)
    /\ logic.goalkeeper_turned_
    /\ ~logic.goalkeeper_caught_
    /\ \E s \in Snapshots({"PLAYING"}, {"GOALKEEPER"}, KickableBalls, GoalSet, PoseSet) :
           Out(s).ret.type = "CATCH"
    /\ \A s \in Snapshots({"PLAYING"}, {"GOALKEEPER"}, InvisibleBalls, GoalSet, PoseSet) :
           Out(s).ret = Action_none
    /\ \A s \in Snapshots({"PLAYING"}, {"STRIKER"}, InvisibleBalls, GoalSet, PoseSet) :
           Out(s).ret = Action_turn(30)

(***************************************************************************)
(* Localization::estimate_position                                          *)
(***************************************************************************)
\* Observations in a flags array in the exploration (SensorData holds
\* MAX_FLAGS = 10).
MaxFlags == 5

\* The observations the explored arrays are made of.  The first three are
\* of landmarks on the line y = 0, seen from that line: "f c" at (0, 0),
\* "f p r c" at (36, 0) and "g r" at (52.5, 0).  The circles of the first and
\* the second touch at (10, 0), those of the second and the third at (62, 0),
\* those of the first and the third do not meet.  The fourth is of a known
\* landmark that is not visible; the fifth has a name the table does not
\* hold ("f c" followed by another character, as a name whose bytes after
\* the copied characters were never written may read).
FlagPool ==
    {FlagInfo(<<"f", " ", "c">>, 100, 180),
     FlagInfo(<<"f", " ", "p", " ", "r", " ", "c">>, 260, 0),
     FlagInfo(<<"g", " ", "r">>, 95, 0),
     [name |-> <<"f", " ", "c", " ", "t">>, distance |-> 50, angle |-> 90, visible |-> FALSE],
     FlagInfo(<<"f", " ", "c", "?">>, 100, 180)}

\* The arrays of up to MaxFlags different observations.
FlagArrays ==
    UNION {{f \in [1..n -> FlagPool] : \A i, j \in 1..n : i # j => f[i] # f[j]} :
               n \in 0..MaxFlags}

\* Landmarks on the line y = 0 for the arrays of two observations: "f c" at
\* (0, 0), "f p r c" at (36, 0), "f l 0" at (-57.5, 0), and "f l t 0", which
\* the second numbered family resolves to (-57.5, 0) as well.
PairNames ==
    {<<"f", " ", "c">>, <<"f", " ", "p", " ", "r", " ", "c">>,
     <<"f", " ", "l", " ", "0">>, <<"f", " ", "l", " ", "t", " ", "0">>}

\* The ranges of those observations: with the centres 36 apart, 10 and 26
\* touch from outside, 10 and 46 from inside, 30 and 30 cross, 5 and 10 are
\* too far apart, and 5 lies inside 50.
PairRanges == {50, 100, 260, 300, 460, 500}

\* The arrays of two visible observations of those landmarks.
PairArrays ==
    {<<FlagInfo(n1, r1, 0), FlagInfo(n2, r2, 90)>> :
        n1 \in PairNames, r1 \in PairRanges, n2 \in PairNames, r2 \in PairRanges}

\* The prefixes of the two numbered families of landmark names.
NumberedPrefixes ==
    {<<"f", " ", "t", " ", "l", " ">>, <<"f", " ", "t", " ", "r", " ">>,
     <<"f", " ", "b", " ", "l", " ">>, <<"f", " ", "b", " ", "r", " ">>,
     <<"f", " ", "l", " ", "t", " ">>, <<"f", " ", "l", " ", "b", " ">>,
     <<"f", " ", "r", " ", "t", " ">>, <<"f", " ", "r", " ", "b", " ">>}

\* Names that are not names of landmarks: a numbered prefix with no digits
\* after it or with a letter after it, an exact name followed by another
\* character, and the empty name.
MalformedNames ==
    NumberedPrefixes \cup {Append(p, "x") : p \in NumberedPrefixes}
        \cup {<<"f", " ", "c", "?">>, <<>>}

\* The arrays of three observations in which the first or the last has such
\* a name and the other two are of "f c" and "f p r c", whose circles touch
\* at (10, 0).
MalformedArrays ==
    {<<FlagInfo(n, 390, 90), FlagInfo(<<"f", " ", "c">>, 100, 180),
       FlagInfo(<<"f", " ", "p", " ", "r", " ", "c">>, 260, 0)>> : n \in MalformedNames}
    \cup
    {<<FlagInfo(<<"f", " ", "c">>, 100, 180),
       FlagInfo(<<"f", " ", "p", " ", "r", " ", "c">>, 260, 0), FlagInfo(n, 390, 90)>> :
        n \in MalformedNames}

\* estimate_position is about to be called with count observations of an
\* explored array.
LocInit ==
    /\ logic = GameLogic_new
    /\ action = Action_none
    /\ status = "IDLE"
    /\ op = "new"
    /\ catches = 0
    /\ passer_run = PasserRun_new
    /\ history = <<>>
    /\ search_run = SearchRun_none
    /\ angle_call = AngleCall_none
    /\ platform = "none"
    /\ sensor_queue = <<>>
    /\ snapshot = SensorData_default
    /\ agent_pc = "receive"
    /\ recent = FALSE
    /\ published = <<>>
    /\ accessing = {}
    /\ finished_seen = FALSE
    /\ last_decide = "never"
    /\ tri_call = TriCall_none
    /\ mqtt_data_offset = 0
    /\ fragment = Fragment_none
    /\ \E flags \in FlagArrays \cup PairArrays \cup MalformedArrays, count \in 0..MaxFlags :
           /\ count <= Len(flags)
           /\ loc = [flags |-> flags, count |-> count, pos |-> PlayerPosition_default,
                     op |-> "call"]

\* PlayerPosition pos = Localization::estimate_position(flags, count);
EstimatePosition ==
    /\ loc.op = "call"
    /\ loc' = [loc EXCEPT !.pos = estimate_position(loc.flags, loc.count),
                          !.op = "estimate_position"]
    /\ UNCHANGED call_vars
    /\ UNCHANGED <<logic, action, status, op, catches, passer_run, history, search_run,
                   angle_call, loop_vars>>

LocNext == EstimatePosition

LocSpec == LocInit /\ [][LocNext]_vars

\* The observations among the first count of flags that are visible and
\* whose name the landmark table resolves, in input order.
Usable(flags, count) ==
    SelectSeq(SubSeq(flags, 1, count),
              LAMBDA f : f.visible /\ get_flag_position(f.name).found)

\* The circles of two observations, triangulated.
TriangulatePair(f, g) ==
    LET pf == get_flag_position(f.name)
        pg == get_flag_position(g.name)
    IN  triangulate(pf.x, pf.y, f.distance, pg.x, pg.y, g.distance)

CentreDistanceSq(f, g) ==
    LET pf == get_flag_position(f.name)
        pg == get_flag_position(g.name)
    IN  (pg.x - pf.x) * (pg.x - pf.x) + (pg.y - pf.y) * (pg.y - pf.y)

\* The circles of two observations meet: the centres are d apart with
\* d # 0 and |r1 - r2| <= d <= r1 + r2 (compared as squares).
CirclesMeet(f, g) ==
    LET d_sq == CentreDistanceSq(f, g)
    IN  /\ d_sq # 0
        /\ (f.distance - g.distance) * (f.distance - g.distance) <= d_sq
        /\ d_sq <= (f.distance + g.distance) * (f.distance + g.distance)

\* C21: for two visible, resolved observations whose landmarks are d apart
\* and whose ranges are r1 and r2, estimate_position returns a pose with
\* valid = true exactly when d # 0 and |r1 - r2| <= d <= r1 + r2; in every
\* other case it returns the default pose, x = y = heading = 0 and
\* valid = false.
C21_ValidIffCirclesMeet ==
    (loc.op = "estimate_position" /\ loc.count = 2 /\ Len(Usable(loc.flags, 2)) = 2) =>
        /\ loc.pos.valid <=> CirclesMeet(loc.flags[1], loc.flags[2])
        /\ ~loc.pos.valid => loc.pos = PlayerPosition_default

\* The circle of range 46 about "f p r c" and the circle of range 10 about
\* "f c", 36 away, touch from inside at (-10, 0): the pose is valid, there,
\* with the heading -45 that the headings 0 and -90 of the two bearings
\* average to.
C21_Witness ==
    /\ loc.op = "estimate_position"
    /\ loc.count = 2
    /\ loc.flags[1] = FlagInfo(<<"f", " ", "p", " ", "r", " ", "c">>, 460, 0)
    /\ loc.flags[2] = FlagInfo(<<"f", " ", "c">>, 100, 90)
    /\ CirclesMeet(loc.flags[1], loc.flags[2])
    /\ loc.pos = PlayerPosition(-100, 0, -45)

\* The observations among the first count of flags whose name is the name
\* of a landmark.
WellFormedOnly(flags, count) ==
    SelectSeq(SubSeq(flags, 1, count), LAMBDA f : f.name \notin MalformedNames)

\* C24: a name that is not a well-formed landmark name (a numbered-family
\* prefix followed by no digits or by a character that is not a digit
\* included) is not resolved by get_flag_position, and estimate_position
\* returns what it returns for the observations without it.
C24_MalformedNamesExcluded ==
    loc.op = "estimate_position" =>
        /\ \A i \in 1..loc.count :
               loc.flags[i].name \in MalformedNames =>
                   ~get_flag_position(loc.flags[i].name).found
        /\ LET rest == WellFormedOnly(loc.flags, loc.count)
           IN  loc.pos = estimate_position(rest, Len(rest))

(***************************************************************************)
(* Localization::triangulate                                                *)
(***************************************************************************)
\* Pairs of landmarks 20.0 apart on each of the four lines of numbered
\* flags: "f t l 10" and "f t r 10", "f b l 10" and "f b r 10", "f l t 10"
\* and "f l b 10", "f r t 10" and "f r b 10".
LinePairs ==
    {<<<<-100, 390>>, <<100, 390>>>>, <<<<-100, -390>>, <<100, -390>>>>,
     <<<<-575, 100>>, <<-575, -100>>>>, <<<<575, 100>>, <<575, -100>>>>}

\* Equal ranges for such a pair: too short to meet (5.0), touching (10.0),
\* and crossing at 7.5, 10.5, 24.0, 49.5, 62.1 and 124.8 from the line.
LineRanges == {50, 100, 125, 145, 260, 505, 629, 1252}

\* "f c" and "f p r c", 36.0 apart on y = 0.
AxisPair == <<<<0, 0>>, <<360, 0>>>>

\* Equal ranges for that pair: touching (18.0), and crossing at 24.0 and at
\* 38.5 from the line.
AxisRanges == {180, 300, 425}

\* "f t l 20" and "f t r 30", then "f b l 20" and "f b r 30", 50.0 apart,
\* seen at 30.0 and 40.0: the circles cross 24.0 from the line.
UnequalPairs ==
    {<<<<-200, 390>>, <<300, 390>>>>, <<<<-200, -390>>, <<300, -390>>>>}

\* The arguments of a call for the landmarks p[1], p[2] and their ranges.
TriArgs(p, ra, rb) ==
    [x1 |-> p[1][1], y1 |-> p[1][2], r1 |-> ra,
     x2 |-> p[2][1], y2 |-> p[2][2], r2 |-> rb]

\* The same observations in the other order.
Swapped(c) ==
    [x1 |-> c.x2, y1 |-> c.y2, r1 |-> c.r2, x2 |-> c.x1, y2 |-> c.y1, r2 |-> c.r1]

\* The explored calls: every pair above with its ranges, in both orders.
TriangulateCalls ==
    LET calls == {TriArgs(p, r, r) : p \in LinePairs, r \in LineRanges}
                 \cup {TriArgs(AxisPair, r, r) : r \in AxisRanges}
                 \cup {TriArgs(p, 300, 400) : p \in UnequalPairs}
    IN  calls \cup {Swapped(c) : c \in calls}

TriangulateInit ==
    /\ logic = GameLogic_new
    /\ action = Action_none
    /\ status = "IDLE"
    /\ op = "new"
    /\ catches = 0
    /\ passer_run = PasserRun_new
    /\ history = <<>>
    /\ loc = Loc_none
    /\ search_run = SearchRun_none
    /\ angle_call = AngleCall_none
    /\ platform = "none"
    /\ sensor_queue = <<>>
    /\ snapshot = SensorData_default
    /\ agent_pc = "receive"
    /\ recent = FALSE
    /\ published = <<>>
    /\ accessing = {}
    /\ finished_seen = FALSE
    /\ last_decide = "never"
    /\ mqtt_data_offset = 0
    /\ fragment = Fragment_none
    /\ \E c \in TriangulateCalls :
           tri_call = [x1 |-> c.x1, y1 |-> c.y1, r1 |-> c.r1,
                       x2 |-> c.x2, y2 |-> c.y2, r2 |-> c.r2,
                       ret |-> PlayerPosition_default, op |-> "call"]

\* PlayerPosition pos = triangulate(x1, y1, r1, x2, y2, r2);
Triangulate ==
    /\ tri_call.op = "call"
    /\ tri_call' =
           [tri_call EXCEPT
               !.ret = triangulate(tri_call.x1, tri_call.y1, tri_call.r1,
                                   tri_call.x2, tri_call.y2, tri_call.r2),
               !.op = "triangulate"]
    /\ UNCHANGED <<logic, action, engine_history, loop_vars, mqtt_data_offset,
                   fragment>>

TriangulateNext == Triangulate

TriangulateSpec == TriangulateInit /\ [][TriangulateNext]_vars

\* The circles of the call c meet: the test of triangulate on the distance
\* of the centres, on squares.
TriCirclesMeet(c) ==
    LET d_sq == (c.x2 - c.x1) * (c.x2 - c.x1) + (c.y2 - c.y1) * (c.y2 - c.y1)
    IN  /\ d_sq # 0
        /\ d_sq <= (c.r1 + c.r2) * (c.r1 + c.r2)
        /\ d_sq >= (c.r1 - c.r2) * (c.r1 - c.r2)

\* p lies on both circles of the call c.
OnBothCircles(c, p) ==
    /\ (p.x - c.x1) * (p.x - c.x1) + (p.y - c.y1) * (p.y - c.y1) = c.r1 * c.r1
    /\ (p.x - c.x2) * (p.x - c.x2) + (p.y - c.y2) * (p.y - c.y2) = c.r2 * c.r2

\* (landmark 2 - landmark 1) x (p - landmark 1): negative when p lies to the
\* right of the directed line from landmark 1 to landmark 2, where
\* midpoint + h (dy, -dx) / d lies; 0 on the line.
SideOfLine(c, p) ==
    (c.x2 - c.x1) * (p.y - c.y1) - (c.y2 - c.y1) * (p.x - c.x1)

\* The mirror image of p in the line through the landmarks of c: the other
\* point where the circles cross.
MirrorImage(c, p) ==
    LET dx == c.x2 - c.x1
        dy == c.y2 - c.y1
        d_sq == dx * dx + dy * dy
    IN  [x |-> p.x + (2 * SideOfLine(c, p) * dy) \div d_sq,
         y |-> p.y - (2 * SideOfLine(c, p) * dx) \div d_sq]

\* p lies inside the box -55 <= x <= 55, -37 <= y <= 37.
InBox(p) == p.x >= -550 /\ p.x <= 550 /\ p.y >= -370 /\ p.y <= 370

\* C36: when the circles meet, triangulate returns a valid pose with heading
\* 0 at one of the two points where they cross; when exactly one of the two
\* points lies inside the box it is that one, and when both or neither do it
\* is the first computed candidate, midpoint + h (dy, -dx) / d, the point
\* to the right of the line from the first landmark to the second.
C36_PrefersCandidateInBox ==
    (tri_call.op = "triangulate" /\ TriCirclesMeet(tri_call)) =>
        LET p == tri_call.ret
            q == MirrorImage(tri_call, p)
        IN  /\ p.valid
            /\ p.heading = 0
            /\ OnBothCircles(tri_call, p)
            /\ OnBothCircles(tri_call, q)
            /\ IF InBox(p) # InBox(q)
               THEN InBox(p)
               ELSE SideOfLine(tri_call, p) <= 0

\* "f t r 10" at 26.0 and then "f t l 10" at 26.0: the first candidate is
\* (0, 63.0), outside the box, and the second, (0, 15.0), is returned.
C36_Witness ==
    /\ tri_call.op = "triangulate"
    /\ <<tri_call.x1, tri_call.y1, tri_call.r1>> = <<100, 390, 260>>
    /\ <<tri_call.x2, tri_call.y2, tri_call.r2>> = <<-100, 390, 260>>
    /\ tri_call.ret = PlayerPosition(0, 150, 0)
    /\ SideOfLine(tri_call, tri_call.ret) > 0

(***************************************************************************)
(* Localization::angle_to_target and angle_to_enemy_goal                    *)
(***************************************************************************)
\* The poses given to the angle functions: at the field centre, 10 m to the
\* left of the right goal line and 10 m above the axis, and on the right
\* goal itself; looking along the axes and the diagonals; reliable or not.
AnglePoses ==
    [x : {0, 425, 525}, y : {0, 100}, heading : {-180, -135, -90, 0, 45, 90, 180},
     valid : BOOLEAN]

\* The targets: the centres of the two goals and the field centre.
AngleTargets == {<<525, 0>>, <<-525, 0>>, <<0, 0>>}

\* An angle function is about to be called for an explored pose and target.
AngleInit ==
    /\ logic = GameLogic_new
    /\ action = Action_none
    /\ status = "IDLE"
    /\ op = "new"
    /\ catches = 0
    /\ passer_run = PasserRun_new
    /\ history = <<>>
    /\ loc = Loc_none
    /\ search_run = SearchRun_none
    /\ platform = "none"
    /\ sensor_queue = <<>>
    /\ snapshot = SensorData_default
    /\ agent_pc = "receive"
    /\ recent = FALSE
    /\ published = <<>>
    /\ accessing = {}
    /\ finished_seen = FALSE
    /\ last_decide = "never"
    /\ tri_call = TriCall_none
    /\ mqtt_data_offset = 0
    /\ fragment = Fragment_none
    /\ \E pos \in AnglePoses, target \in AngleTargets :
           angle_call = [pos |-> pos, target_x |-> target[1], target_y |-> target[2],
                         ret |-> 0, op |-> "call"]

\* float angle = Localization::angle_to_target(pos, target_x, target_y);
AngleToTarget ==
    /\ angle_call.op = "call"
    /\ angle_call' =
           [angle_call EXCEPT
               !.ret = angle_to_target(angle_call.pos, angle_call.target_x,
                                       angle_call.target_y),
               !.op = "angle_to_target"]
    /\ UNCHANGED call_vars
    /\ UNCHANGED <<logic, action, status, op, catches, passer_run, history, loc,
                   search_run, loop_vars>>

\* float angle = Localization::angle_to_enemy_goal(pos); the target is the
\* one the function fixes.
AngleToEnemyGoal ==
    /\ angle_call.op = "call"
    /\ angle_call' =
           [angle_call EXCEPT
               !.target_x = 525,
               !.target_y = 0,
               !.ret = angle_to_enemy_goal(angle_call.pos),
               !.op = "angle_to_enemy_goal"]
    /\ UNCHANGED call_vars
    /\ UNCHANGED <<logic, action, status, op, catches, passer_run, history, loc,
                   search_run, loop_vars>>

AngleNext == AngleToTarget \/ AngleToEnemyGoal

AngleSpec == AngleInit /\ [][AngleNext]_vars

\* An angle function has returned for a reliable pose.
AngleReturned ==
    /\ angle_call.op \in {"angle_to_target", "angle_to_enemy_goal"}
    /\ angle_call.pos.valid

\* The bearing from the pose of angle_call to its target, minus the heading
\* of the pose.
RelativeBearing ==
    Atan2Deg(angle_call.target_y - angle_call.pos.y,
             angle_call.target_x - angle_call.pos.x) - angle_call.pos.heading

\* C22 as stated: for a valid pose the angle returned lies in the half-open
\* range (-180, 180], never -180, and is congruent modulo 360 to the bearing
\* of the target minus the heading.
C22_HalfOpenRange ==
    AngleReturned =>
        /\ angle_call.ret > -180
        /\ angle_call.ret <= 180
        /\ (angle_call.ret - RelativeBearing) % 360 = 0

\* C22 amended: for a valid pose the angle returned lies in the closed range
\* [-180, 180] and is congruent modulo 360 to the bearing of the target minus
\* the heading; a difference in [-180, 180] is returned as it is, -180
\* included.
C22_ClosedRange ==
    AngleReturned =>
        /\ angle_call.ret >= -180
        /\ angle_call.ret <= 180
        /\ (angle_call.ret - RelativeBearing) % 360 = 0
        /\ (RelativeBearing >= -180 /\ RelativeBearing <= 180) =>
               angle_call.ret = RelativeBearing

\* From the field centre with heading 180 the right goal is at bearing 0:
\* angle_to_target has returned -180.
C22_Witness ==
    /\ angle_call.op = "angle_to_target"
    /\ angle_call.pos = PlayerPosition(0, 0, 180)
    /\ angle_call.target_x = 525
    /\ angle_call.target_y = 0
    /\ angle_call.ret = -180

\* C23: angle_to_enemy_goal returns 0 for a pose that is not valid; for a
\* valid pose at the field centre with heading h it returns the
\* normalization of -h: 0 for h = 0, -90 for h = 90, and an angle of
\* magnitude 180 for h = 180.
C23_AngleToEnemyGoalFromCentre ==
    angle_call.op = "angle_to_enemy_goal" =>
        LET pos == angle_call.pos
            ret == angle_call.ret
        IN  /\ ~pos.valid => ret = 0
            /\ (pos.valid /\ pos.x = 0 /\ pos.y = 0) =>
                   /\ ret = normalize_angle(-pos.heading)
                   /\ pos.heading = 0 => ret = 0
                   /\ pos.heading = 90 => ret = -90
                   /\ pos.heading = 180 => fabsf(ret) = 180

\* angle_to_enemy_goal has returned -90 for the valid pose at the field
\* centre that looks up the field (heading 90).
C23_Witness ==
    /\ angle_call.op = "angle_to_enemy_goal"
    /\ angle_call.pos = PlayerPosition(0, 0, 90)
    /\ angle_call.ret = -90

=============================================================================
